---------------------------- MODULE Spec2Model ----------------------------
(***************************************************************************)
(* Model of the LinuxCNC-RIO HAL component rio.c (TinyFPGA-BX_BOB output). *)
(*                                                                         *)
(* The three realtime callbacks update_freq, spi_write and spi_read are    *)
(* one action each; the host (LinuxCNC HAL) writes pins and parameters     *)
(* between ticks.  A tick is update_freq, then spi_write, then spi_read.   *)
(*                                                                         *)
(* Numbers.  A double is an IEEE 754 binary64 value and a float a          *)
(* binary32 value, with signed zeros, infinities and NaN.  Every           *)
(* operation computes the exact result and rounds it to the format the     *)
(* C expression has (round to nearest, ties to even): RAdd, RSub, RMul,    *)
(* RDiv are the double operations, FMul and FDiv the float ones, ToF32     *)
(* the store of a double in a float.  hal_float_t is double; the fields    *)
(* freq, old_scale, scale_recip, prev_cmd, cmd_d and the locals pgain,     *)
(* ff1gain, deadband of update_freq are floats.  The conversion of a       *)
(* floating value outside the range of the integer field it is stored      *)
(* in is undefined: both outcomes the builds produce are explored.  The    *)
(* compiler may contract pgain * error + ... of line 648 into one fused    *)
(* multiply-add (gcc does with -mfma, -march=native and on aarch64): the   *)
(* builds with and without the contraction are explored.                   *)
(*                                                                         *)
(* Threads.  The three callbacks run in one realtime thread; the pins      *)
(* SPI-enable and SPI-reset are written by other HAL components or         *)
(* user-space tools at any moment, also between the two reads of           *)
(* SPI-reset in spi_read (HostLink, and the second read of spi_read).      *)
(* The specifications without HostLink hold the link pins fixed.  The      *)
(* axis pins and parameters are written between ticks.                     *)
(*                                                                         *)
(* Memory.  data_t is obtained from hal_malloc, which hands out HAL        *)
(* shared memory; that memory is zero-filled.  rtapi_app_main leaves the   *)
(* fields SPIresetOld, freq, maxvel, old_scale, prev_cmd, cmd_d and        *)
(* scale_recip as it finds them, so they start at zero, and maxvel, which  *)
(* is exported neither as a pin nor as a parameter, is written by          *)
(* update_freq only.  File-scope statics start at zero.                    *)
(*                                                                         *)
(* Life cycle.  rtapi_app_main loads the component and rtapi_app_exit      *)
(* unloads it (SpecLoad); the other specifications start from a loaded     *)
(* component.                                                              *)
(***************************************************************************)
EXTENDS Integers, Sequences, FiniteSets, TLC

(***************************************************************************)
(* Bounds of the exploration.                                              *)
(***************************************************************************)
MaxTicks == 3
MaxWrites == 2

(***************************************************************************)
(* Constants of rio.h (generated header, not part of the sources at hand). *)
(***************************************************************************)
JOINTS == 3
VARIABLE_OUTPUTS == 1
VARIABLE_INPUTS == 1
DIGITAL_OUTPUT_BYTES == 1
DIGITAL_INPUT_BYTES == 2
JOINT_ENABLE_BYTES == 1
PRU_BASEFREQ == 120000
PRU_OSC == 16000000
STEPBIT == 22
PRU_DATA == "data"
PRU_READ == "read"
PRU_WRITE == "writ"
PRU_ESTOP == "estp"
JOINT_FB_REL == 0
JOINT_FB_ABS == 1

Axes == 0 .. (JOINTS - 1)

(***************************************************************************)
(* Natural numbers of any size: sequences of limbs to the base 2^15, least *)
(* significant limb first, without leading zero limbs; <<>> is 0.          *)
(***************************************************************************)
IAbs(n) == IF n < 0 THEN -n ELSE n

Pow2(k) == 2 ^ k

IMax(a, b) == IF a >= b THEN a ELSE b

IMin(a, b) == IF a <= b THEN a ELSE b

LimbBase == Pow2(15)

\* the number of binary digits of n
RECURSIVE ILen(_)
ILen(n) == IF n = 0 THEN 0 ELSE 1 + ILen(n \div 2)

\* the bits of a limb
LimbBits == ILen(LimbBase) - 1

RECURSIVE BTrim(_)
BTrim(a) ==
    IF Len(a) > 0 /\ a[Len(a)] = 0 THEN BTrim(SubSeq(a, 1, Len(a) - 1)) ELSE a

RECURSIVE BFromNat(_)
BFromNat(n) == IF n = 0 THEN <<>> ELSE <<n % LimbBase>> \o BFromNat(n \div LimbBase)

\* the value of a, for a < 2^31
RECURSIVE BToNat(_)
BToNat(a) == IF Len(a) = 0 THEN 0 ELSE a[1] + LimbBase * BToNat(Tail(a))

RECURSIVE BCmpAt(_, _, _)
BCmpAt(a, b, i) ==
    IF i = 0 THEN 0
    ELSE IF a[i] # b[i] THEN (IF a[i] < b[i] THEN -1 ELSE 1)
    ELSE BCmpAt(a, b, i - 1)

\* -1, 0, 1 as a < b, a = b, a > b
BCmp(a, b) ==
    IF Len(a) # Len(b) THEN (IF Len(a) < Len(b) THEN -1 ELSE 1)
    ELSE BCmpAt(a, b, Len(a))

RECURSIVE BAddC(_, _, _, _)
BAddC(a, b, i, c) ==
    IF i > Len(a) /\ i > Len(b) THEN (IF c = 0 THEN <<>> ELSE <<c>>)
    ELSE LET s == (IF i <= Len(a) THEN a[i] ELSE 0)
                  + (IF i <= Len(b) THEN b[i] ELSE 0) + c
         IN  <<s % LimbBase>> \o BAddC(a, b, i + 1, s \div LimbBase)

BAdd(a, b) == BAddC(a, b, 1, 0)

RECURSIVE BSubC(_, _, _, _)
BSubC(a, b, i, br) ==
    IF i > Len(a) THEN <<>>
    ELSE LET d == (a[i] - (IF i <= Len(b) THEN b[i] ELSE 0)) - br
         IN  <<IF d < 0 THEN d + LimbBase ELSE d>>
                 \o BSubC(a, b, i + 1, IF d < 0 THEN 1 ELSE 0)

\* a - b for a >= b
BSub(a, b) == BTrim(BSubC(a, b, 1, 0))

RECURSIVE BMulLimbC(_, _, _, _)
BMulLimbC(a, k, i, c) ==
    IF i > Len(a) THEN (IF c = 0 THEN <<>> ELSE <<c>>)
    ELSE LET p == a[i] * k + c
         IN  <<p % LimbBase>> \o BMulLimbC(a, k, i + 1, p \div LimbBase)

\* a * k for 0 <= k < 2^15
BMulSmall(a, k) == IF k = 0 THEN <<>> ELSE BMulLimbC(a, k, 1, 0)

RECURSIVE BMul(_, _)
BMul(a, b) ==
    IF Len(a) = 0 \/ Len(b) = 0 THEN <<>>
    ELSE LET rest == BMul(a, Tail(b))
         IN  BAdd(BMulSmall(a, Head(b)), IF Len(rest) = 0 THEN <<>> ELSE <<0>> \o rest)

\* a * 2^n
BShl(a, n) ==
    IF Len(a) = 0 THEN <<>>
    ELSE [i \in 1 .. (n \div LimbBits) |-> 0] \o BMulSmall(a, Pow2(n % LimbBits))

RECURSIVE BDivSmallAt(_, _, _, _)
BDivSmallAt(a, k, i, r) ==
    IF i = 0 THEN [q |-> <<>>, r |-> r]
    ELSE LET cur == r * LimbBase + a[i]
             rest == BDivSmallAt(a, k, i - 1, cur % k)
         IN  [q |-> Append(rest.q, cur \div k), r |-> rest.r]

\* quotient and remainder of a by k, 0 < k <= 2^15
BDivSmall(a, k) ==
    LET d == BDivSmallAt(a, k, Len(a), 0) IN [q |-> BTrim(d.q), r |-> d.r]

\* a div 2^n
BShr(a, n) ==
    IF n \div LimbBits >= Len(a) THEN <<>>
    ELSE BDivSmall(SubSeq(a, (n \div LimbBits) + 1, Len(a)), Pow2(n % LimbBits)).q


\* the number of bits of a
BBitLen(a) == IF Len(a) = 0 THEN 0 ELSE LimbBits * (Len(a) - 1) + ILen(a[Len(a)])

\* bit i of a
BBit(a, i) ==
    IF (i \div LimbBits) + 1 > Len(a) THEN 0
    ELSE (a[(i \div LimbBits) + 1] \div Pow2(i % LimbBits)) % 2

\* a mod 2^n = 0
BLowZero(a, n) ==
    /\ \A i \in 1 .. IMin(n \div LimbBits, Len(a)) : a[i] = 0
    /\ (n \div LimbBits) + 1 > Len(a)
          \/ a[(n \div LimbBits) + 1] % Pow2(n % LimbBits) = 0

RECURSIVE ITz(_)
ITz(n) == IF n % 2 = 1 THEN 0 ELSE 1 + ITz(n \div 2)

RECURSIVE BTzAt(_, _)
BTzAt(a, i) == IF a[i] = 0 THEN LimbBits + BTzAt(a, i + 1) ELSE ITz(a[i])

\* the number of trailing zero bits of a > 0
BTz(a) == BTzAt(a, 1)

RECURSIVE BDigit(_, _, _, _)
\* the largest d in lo .. hi with b * d <= a
BDigit(a, b, lo, hi) ==
    IF lo = hi THEN lo
    ELSE LET mid == (lo + hi + 1) \div 2
         IN  IF BCmp(BMulSmall(b, mid), a) <= 0 THEN BDigit(a, b, mid, hi)
             ELSE BDigit(a, b, lo, mid - 1)

RECURSIVE BDivAt(_, _, _)
BDivAt(a, b, i) ==
    IF i > Len(a) THEN [q |-> <<>>, r |-> <<>>]
    ELSE LET prev == BDivAt(a, b, i + 1)
             cur == BTrim(<<a[i]>> \o prev.r)
             d == BDigit(cur, b, 0, LimbBase - 1)
         IN  [q |-> <<d>> \o prev.q, r |-> BSub(cur, BMulSmall(b, d))]

\* quotient and remainder of a by b > 0, by long division to the base 2^15
BDivMod(a, b) == LET d == BDivAt(a, b, 1) IN [q |-> BTrim(d.q), r |-> d.r]

(***************************************************************************)
(* Floating-point values.  A value is <<kind, sign, m, e>>: "f" a finite   *)
(* number sign * m * 2^e with m odd, or m = 0 and e = 0 for the two zeros; *)
(* "i" an infinity; "n" a NaN.  Every double and every float is such a     *)
(* value; an operation computes the exact result and rounds it to the      *)
(* format of the C operation (nearest, ties to even).                      *)
(***************************************************************************)
NaN == <<"n", 1, <<>>, 0>>
Inf(s) == <<"i", s, <<>>, 0>>
ZeroOf(s) == <<"f", s, <<>>, 0>>
Zero == ZeroOf(1)
NegZero == ZeroOf(-1)

\* sign * m * 2^e in the canonical form, for any m
Fin(s, m, e) ==
    IF Len(m) = 0 THEN ZeroOf(s)
    ELSE LET tz == BTz(m) IN <<"f", s, BShr(m, tz), e + tz>>

IsNaN(x) == x[1] = "n"
IsInf(x) == x[1] = "i"
IsFinite(x) == x[1] = "f"
IsZero(x) == x[1] = "f" /\ Len(x[3]) = 0
\* -1, 0, 1
RSign(x) == IF IsNaN(x) \/ IsZero(x) THEN 0 ELSE x[2]

\* the formats: precision, exponent of the least subnormal bit, exponent of
\* the largest finite binade
Binary64 == [p |-> 53, emin |-> -1074, emax |-> 1023]
Binary32 == [p |-> 24, emin |-> -149, emax |-> 127]

\* sign * m * 2^e, m > 0, rounded to the format
Round(fmt, s, m, e) ==
    LET L == BBitLen(m)
        q == IMax((e + L) - fmt.p, fmt.emin)
        sh == q - e
        keep == BShr(m, sh)
        up == BBit(m, sh - 1) = 1 /\ (~BLowZero(m, sh - 1) \/ BBit(keep, 0) = 1)
        kept == IF sh <= 0 THEN m ELSE IF up THEN BAdd(keep, <<1>>) ELSE keep
        ke == IF sh <= 0 THEN e ELSE q
    IN  IF BBitLen(kept) + ke - 1 > fmt.emax THEN Inf(s) ELSE Fin(s, kept, ke)

\* the conversion of a value to the format
Conv(fmt, x) == IF IsFinite(x) /\ ~IsZero(x) THEN Round(fmt, x[2], x[3], x[4]) ELSE x

ToF32(x) == Conv(Binary32, x)

RNeg(x) == IF IsNaN(x) THEN x ELSE <<x[1], -x[2], x[3], x[4]>>

RAbs(x) == IF IsNaN(x) THEN x ELSE <<x[1], 1, x[3], x[4]>>

\* -1, 0, 1 as |x| < |y|, |x| = |y|, |x| > |y| for finite nonzero x, y
MagCmp(x, y) ==
    LET tx == x[4] + BBitLen(x[3])
        ty == y[4] + BBitLen(y[3])
        e == IMin(x[4], y[4])
    IN  IF tx # ty THEN (IF tx < ty THEN -1 ELSE 1)
        ELSE BCmp(BShl(x[3], x[4] - e), BShl(y[3], y[4] - e))

\* -1, 0, 1 as x < y, x = y, x > y, for x and y other than NaN
Cmp(x, y) ==
    LET sx == RSign(x)
        sy == RSign(y)
    IN  IF sx # sy THEN (IF sx < sy THEN -1 ELSE 1)
        ELSE IF sx = 0 THEN 0
        ELSE IF IsInf(x) /\ IsInf(y) THEN 0
        ELSE IF IsInf(x) THEN sx
        ELSE IF IsInf(y) THEN -sx
        ELSE sx * MagCmp(x, y)

\* the C comparisons: with a NaN operand <, <=, >, >= and == are false
RLt(x, y) == ~IsNaN(x) /\ ~IsNaN(y) /\ Cmp(x, y) < 0
RGt(x, y) == RLt(y, x)
RLe(x, y) == ~IsNaN(x) /\ ~IsNaN(y) /\ Cmp(x, y) <= 0
RNe(x, y) == IsNaN(x) \/ IsNaN(y) \/ Cmp(x, y) # 0

\* x + y in the format.  An operand that lies wholly below the bits the
\* rounding looks at, the other operand having no bit that low, only tells on
\* which side of the other operand the sum is: a single bit stands for it.
XAdd(fmt, x, y) ==
    IF IsNaN(x) \/ IsNaN(y) THEN NaN
    ELSE IF IsInf(x) /\ IsInf(y) THEN (IF x = y THEN x ELSE NaN)
    ELSE IF IsInf(x) THEN x
    ELSE IF IsInf(y) THEN y
    ELSE IF IsZero(x) /\ IsZero(y) THEN (IF x[2] = -1 /\ y[2] = -1 THEN NegZero ELSE Zero)
    ELSE IF IsZero(x) THEN Conv(fmt, y)
    ELSE IF IsZero(y) THEN Conv(fmt, x)
    ELSE LET t == IMax(x[4] + BBitLen(x[3]), y[4] + BBitLen(y[3])) - (fmt.p + 3)
             lowx == x[4] + BBitLen(x[3]) <= t /\ y[4] >= t
             lowy == y[4] + BBitLen(y[3]) <= t /\ x[4] >= t
             mx == IF lowx THEN <<1>> ELSE x[3]
             ex == IF lowx THEN t - 1 ELSE x[4]
             my == IF lowy THEN <<1>> ELSE y[3]
             ey == IF lowy THEN t - 1 ELSE y[4]
             e == IMin(ex, ey)
             a == BShl(mx, ex - e)
             b == BShl(my, ey - e)
             c == BCmp(a, b)
         IN  IF x[2] = y[2] THEN Round(fmt, x[2], BAdd(a, b), e)
             ELSE IF c = 0 THEN Zero
             ELSE IF c > 0 THEN Round(fmt, x[2], BSub(a, b), e)
             ELSE Round(fmt, y[2], BSub(b, a), e)

\* x * y in the format
XMul(fmt, x, y) ==
    IF IsNaN(x) \/ IsNaN(y) THEN NaN
    ELSE IF IsInf(x) \/ IsInf(y)
    THEN (IF IsZero(x) \/ IsZero(y) THEN NaN ELSE Inf(x[2] * y[2]))
    ELSE IF IsZero(x) \/ IsZero(y) THEN ZeroOf(x[2] * y[2])
    ELSE Round(fmt, x[2] * y[2], BMul(x[3], y[3]), x[4] + y[4])

\* x / y in the format: the quotient of the significands to two bits more than
\* the precision, followed by a bit that tells whether there is a remainder
XDiv(fmt, x, y) ==
    IF IsNaN(x) \/ IsNaN(y) THEN NaN
    ELSE IF IsInf(x) THEN (IF IsInf(y) THEN NaN ELSE Inf(x[2] * y[2]))
    ELSE IF IsInf(y) THEN ZeroOf(x[2] * y[2])
    ELSE IF IsZero(y) THEN (IF IsZero(x) THEN NaN ELSE Inf(x[2] * y[2]))
    ELSE IF IsZero(x) THEN ZeroOf(x[2] * y[2])
    ELSE LET k == IMax(0, (fmt.p + 2 + BBitLen(y[3])) - BBitLen(x[3]))
             d == BDivMod(BShl(x[3], k), y[3])
             m == BMulLimbC(d.q, 2, 1, IF Len(d.r) = 0 THEN 0 ELSE 1)
         IN  Round(fmt, x[2] * y[2], m, ((x[4] - y[4]) - k) - 1)

\* the operations on doubles
RAdd(x, y) == XAdd(Binary64, x, y)
RSub(x, y) == XAdd(Binary64, x, RNeg(y))
RMul(x, y) == XMul(Binary64, x, y)
RDiv(x, y) == XDiv(Binary64, x, y)

\* fma(x, y, z) on doubles: x * y + z with a single rounding, the exact
\* product being added to z.  A product that is 0, infinite or NaN is exact
\* as XMul gives it
RFma(x, y, z) ==
    IF IsFinite(x) /\ IsFinite(y) /\ ~IsZero(x) /\ ~IsZero(y)
    THEN XAdd(Binary64, <<"f", x[2] * y[2], BMul(x[3], y[3]), x[4] + y[4]>>, z)
    ELSE XAdd(Binary64, XMul(Binary64, x, y), z)

\* the operations on floats
FMul(x, y) == XMul(Binary32, x, y)
FDiv(x, y) == XDiv(Binary32, x, y)

\* the double of an int
R(n) == Fin(IF n < 0 THEN -1 ELSE 1,
            IF n = (-2147483647) - 1 THEN <<0, 0, 2>> ELSE BFromNat(IAbs(n)), 0)
One == R(1)
Half == Fin(1, <<1>>, -1)

\* the double quotient of two ints
Norm(n, d) == RDiv(R(n), R(d))

\* the double of the literal 0.000000001
NanoSecond == <<"f", 1, <<22165, 20557, 14383, 137>>, -82>>

\* the double of the literal 1e-20
Tiny == <<"f", 1, <<16931, 6436, 29316, 188>>, -119>>

\* (x < 1e-20) && (x > -1e-20)
TooSmall(x) == RLt(x, Tiny) /\ RGt(x, RNeg(Tiny))


(***************************************************************************)
(* Integer helpers: C truncating division and 32-bit two's complement.     *)
(***************************************************************************)
INT32_MAX == 2147483647
INT32_MIN == (-2147483647) - 1

\* C integer division (truncation toward zero), b # 0
CDiv(a, b) ==
    IF (a >= 0) = (b > 0) THEN IAbs(a) \div IAbs(b) ELSE -(IAbs(a) \div IAbs(b))

\* a - b in int32_t with wrap-around, computed without leaving 32 bits
Sub32(a, b) ==
    IF (a >= 0) = (b >= 0) THEN a - b
    ELSE IF a >= 0
         THEN (IF a <= INT32_MAX + b THEN a - b
               ELSE ((a - INT32_MAX) - 1) - ((b + INT32_MAX) + 1))
         ELSE (IF a >= INT32_MIN + b THEN a - b
               ELSE ((a + INT32_MAX) + 1) + ((INT32_MAX - b) + 1))

\* Integers beyond 32 bits: <<hi, lo>> stands for hi * 2^31 + lo, 0 <= lo < 2^31.
WZero == <<0, 0>>

\* w + d for an int32_t d
WAdd(w, d) ==
    IF d >= 0
    THEN (IF w[2] > INT32_MAX - d
          THEN <<w[1] + 1, (w[2] - (INT32_MAX - d)) - 1>>
          ELSE <<w[1], w[2] + d>>)
    ELSE (IF w[2] + d < 0
          THEN <<w[1] - 1, ((w[2] + d) + INT32_MAX) + 1>>
          ELSE <<w[1], w[2] + d>>)

WNeg(w) == IF w[2] = 0 THEN <<-w[1], 0>> ELSE <<(-w[1]) - 1, (INT32_MAX - w[2]) + 1>>

\* w / k truncated toward zero, for a divisor k >= 1 and a quotient within 32 bits
WQuot(w, k) ==
    LET carry == (INT32_MAX % k) + 1 = k
        A == (INT32_MAX \div k) + (IF carry THEN 1 ELSE 0)      \* 2^31 div k
        B == IF carry THEN 0 ELSE (INT32_MAX % k) + 1           \* 2^31 mod k
        Q(u) == IF u[1] = 0 THEN u[2] \div k
                ELSE u[1] * A + (u[2] \div k) + ((u[1] * B + (u[2] % k)) \div k)
    IN  IF w[1] >= 0 THEN Q(w) ELSE -Q(WNeg(w))

\* the wide form of an int32_t
WOf(n) == WAdd(WZero, n)

\* conversion of an int64_t to int32_t: the low 32 bits (gcc)
WToInt32(w) == IF w[1] % 2 = 0 THEN w[2] ELSE w[2] + INT32_MIN

\* (double)w for an int64_t w
WToDouble(w) ==
    LET a == IF w[1] < 0 THEN WNeg(w) ELSE w
    IN  Conv(Binary64, Fin(IF w[1] < 0 THEN -1 ELSE 1,
                           BAdd(BShl(BFromNat(a[1]), 31), BFromNat(a[2])), 0))

(***************************************************************************)
(* Configuration tables of rio.h and the module parameter ctrl_type.       *)
(***************************************************************************)
joints_fb_type == <<JOINT_FB_REL, JOINT_FB_ABS, JOINT_FB_REL>>
joints_fb_scale == <<1, 2, 2>>
VOUT_TYPE_SINE == 0
VOUT_TYPE_PWM == 1
VOUT_TYPE_RCSERVO == 2
VOUT_TYPE_LINEAR == 3
vout_type == <<VOUT_TYPE_LINEAR>>
vout_freq == <<10000>>
vout_min == <<0>>
vout_max == <<10>>

\* A control tag is a C string, here the sequence of its characters; NullTag is
\* the null pointer of an entry of ctrl_type the module parameter leaves unset.
NullTag == <<"NULL">>

CONTROL == {"POSITION", "VELOCITY", "INVALID"}

\* the empty tag taken as invalid
parse_ctrl_type_strict(ctrl) ==
    IF ctrl = NullTag THEN "POSITION"
    ELSE IF Len(ctrl) = 0 THEN "INVALID"
    ELSE IF ctrl[1] = "p" \/ ctrl[1] = "P" THEN "POSITION"
    ELSE IF ctrl[1] = "v" \/ ctrl[1] = "V" THEN "VELOCITY"
    ELSE "INVALID"

\* lines 870-875
parse_ctrl_type(ctrl) ==
    IF ctrl = NullTag \/ Len(ctrl) = 0 \/ ctrl[1] = "p" \/ ctrl[1] = "P" THEN "POSITION"
    ELSE IF ctrl[1] = "v" \/ ctrl[1] = "V" THEN "VELOCITY"
    ELSE "INVALID"

(***************************************************************************)
(* State.                                                                  *)
(***************************************************************************)
VARIABLES
    phase,          \* next callback of the servo thread: "freq", "write", "read";
                    \* "load" before rtapi_app_main, "failed" after it failed and
                    \* "unloaded" after rtapi_app_exit
    ticks,          \* completed ticks
    writes,         \* host writes so far
    period,         \* the period argument the thread passes to update_freq (ns)
    fcvt,           \* what this build yields for an out-of-range float -> int32
    contract,       \* whether this build fuses the multiply-add of line 648
    SPIenable, SPIreset, SPIresetOld, SPIstatus,
    stepperEnable, pos_mode, pos_cmd, vel_cmd, pos_fb, count,
    pos_scale, freq, freq_cmd, maxvel, maxaccel, pgain, ff1gain, deadband,
    prev_cmd, cmd_d, old_scale, scale_recip,
    setPoint, processVariable, outputs, inputs, inputs_not,
    old_dtns, dt, recip_dt, accum, old_count, accum_diff,
    txData, rxData, cs,
    bus,            \* the pin operations and transfers of the last spi_transfer
    msgs,           \* the messages the last spi_read printed, in order
    pk,             \* the last joint-enable packing applied for a given number of axes
    xferW,          \* spi_write called spi_transfer in the current tick
    xferR,          \* spi_read called spi_transfer in the current tick
    rdEnable,       \* SPI-enable as the last spi_read saw it
    rdEdge,         \* the last spi_read saw SPI-reset true with SPIresetOld false
    st0,            \* SPI-status at the start of the current tick
    nfail,          \* spi_transfer calls in the current run of ticks that saw neither
                    \* a reset rising edge nor a valid-data header
    raw_prev,       \* per axis: the raw counter of the last decoded packet
    truepos,        \* per axis: the displacement of the remote counter since the
                    \* load, the sum of the changes between decoded packets
    ctrl_type,      \* the module parameter ctrl_type: one tag per axis
    app,            \* rtapi_app_main: where it returned, its return value, whether
                    \* hal_init was called and whether the component is registered
                    \* (until rtapi_app_exit)
    held,           \* 0: no reset edge was taken with SPI-enable false, or SPI-reset
                    \* was seen false since; 1: the last spi_read took such an edge;
                    \* 2: SPI-reset has been seen true in every read of every
                    \* spi_read since
    loc             \* per axis: the locals of the last update_freq

linkVars == <<SPIenable, SPIreset, SPIresetOld, SPIstatus>>
hostAxisVars == <<stepperEnable, pos_cmd, vel_cmd, pgain, ff1gain, deadband>>
fbVars == <<pos_fb, count, processVariable, inputs, inputs_not, accum, old_count, accum_diff>>
freqVars == <<freq, freq_cmd, maxvel, maxaccel, prev_cmd, cmd_d, old_scale,
              old_dtns, dt, recip_dt, loc>>
ioVars == <<setPoint, outputs>>
pktVars == <<txData, rxData, cs, bus>>
ghostVars == <<xferW, xferR, rdEnable, rdEdge, st0, nfail, held, raw_prev, truepos,
               msgs, pk>>
ctlVars == <<phase, ticks, writes, period, fcvt, contract, pos_mode, ctrl_type, app>>

vars == <<ctlVars, linkVars, hostAxisVars, fbVars, freqVars, pos_scale, scale_recip,
          ioVars, pktVars, ghostVars>>


(***************************************************************************)
(* update_freq: the per-axis body of the loop.  The result carries the     *)
(* new values of the axis's fields and the locals of the iteration.        *)
(***************************************************************************)
\* F applied to the value v, which is computed once however often F uses it
With(v, F(_)) == F(v)

RECURSIVE PerAxis(_, _)
\* the table of f[i] for the axes from i on, each entry computed once
PerAxis(f, i) ==
    IF i >= JOINTS - 1 THEN i :> f[i] ELSE (i :> f[i]) @@ PerAxis(f, i + 1)

\* hal_pin_bit_newf stored a pin address in data->stepperEnable[n]: after a
\* successful rtapi_app_main no entry is the null pointer
stepperEnablePtrIsNull(n) == FALSE

\* "*data->stepperEnable == 0": data->stepperEnable is the array of pin
\* pointers, so the expression is stepperEnable[0] == NULL, for every axis i
stepgen_disabled(i) == stepperEnablePtrIsNull(0)

\* the accel limit with the limit left out
accel_limit_none(v, f, dv) == v

accel_limit(v, f, dv) ==
    IF RGt(v, RAdd(f, dv)) THEN RAdd(f, dv)
    ELSE IF RLt(v, RSub(f, dv)) THEN RSub(f, dv)
    ELSE v

\* the frequency limit left out
freq_limit_none(v, max_freq) == v

\* lines 662-667: the command in counts per second limited to +-max_freq
freq_limit(v, max_freq) ==
    IF RGt(v, max_freq) THEN max_freq
    ELSE IF RLt(v, RNeg(max_freq)) THEN RNeg(max_freq)
    ELSE v

\* lines 536-540: result is the stored old_scale, a float, and the validated
\* pos_scale
scale_check(scale, old) ==
    IF RNe(scale, old)
    THEN [changed |-> TRUE,
          old_scale |-> ToF32(scale),
          pos_scale |-> IF TooSmall(scale) THEN One ELSE scale]
    ELSE [changed |-> FALSE, old_scale |-> old, pos_scale |-> scale]

\* line 548: PRU_BASEFREQ/(2.0)
base_freq == RDiv(R(PRU_BASEFREQ), R(2))

\* the frequency limit with a maxvel <= 0 taken as "no motion"
freq_ceiling_zero(mv, scale) ==
    LET desired_freq == RMul(mv, RAbs(scale))
    IN  IF RLe(mv, Zero) THEN [maxvel |-> Zero, max_freq |-> Zero]
        ELSE IF RGt(desired_freq, base_freq)
        THEN [maxvel |-> RDiv(base_freq, RAbs(scale)), max_freq |-> base_freq]
        ELSE [maxvel |-> mv, max_freq |-> desired_freq]

\* lines 548-568: the stored maxvel and the local max_freq
freq_ceiling(mv, scale) ==
    LET desired_freq == RMul(mv, RAbs(scale))
    IN  IF RLe(mv, Zero) THEN [maxvel |-> Zero, max_freq |-> base_freq]
        ELSE IF RGt(desired_freq, base_freq)
        THEN [maxvel |-> RDiv(base_freq, RAbs(scale)), max_freq |-> base_freq]
        ELSE [maxvel |-> mv, max_freq |-> desired_freq]

\* a gain pin taken as it is
gain_as_given(g) == ToF32(g)

\* lines 602-614: a gain pin of exactly 0 stands for 1.0; the local is a float
gain_or_default(g) == ToF32(IF RNe(g, Zero) THEN g ELSE One)

\* lines 616-621; the local is a float
deadband_or_default(d, scale) == ToF32(IF RNe(d, Zero) THEN d ELSE RDiv(One, scale))

\* lines 631-639
apply_deadband(error0, db) ==
    IF RGt(error0, db) THEN RSub(error0, db)
    ELSE IF RLt(error0, RNeg(db)) THEN RAdd(error0, db)
    ELSE Zero

\* line 543: (1.0 / STEP_MASK) / pos_scale stored in the float scale_recip
scale_recip_of(scale) == ToF32(RDiv(RDiv(One, R(Pow2(STEPBIT))), scale))

\* an acceleration ceiling that takes the parameter without the upper clamp
accel_ceiling_as_given(ma, scale, abs_max_ac) ==
    IF RLe(ma, Zero) THEN [maxaccel |-> Zero, max_ac |-> abs_max_ac]
    ELSE [maxaccel |-> ma, max_ac |-> RMul(ma, RAbs(scale))]

\* lines 570-589: the acceleration limit parameter against the absolute
\* maximum abs_max_ac = max_freq * recip_dt
accel_ceiling(ma, scale, abs_max_ac) ==
    LET desired_ac == RMul(ma, RAbs(scale))
    IN  IF RLe(ma, Zero) THEN [maxaccel |-> Zero, max_ac |-> abs_max_ac]
        ELSE IF RGt(desired_ac, abs_max_ac)
        THEN [maxaccel |-> RDiv(abs_max_ac, RAbs(scale)), max_ac |-> abs_max_ac]
        ELSE [maxaccel |-> ma, max_ac |-> desired_ac]

\* line 648: pgain * error + cmd_d * ff1gain.  cmd_d and the gains are floats
\* and error is a double: ffterm is the float product, and the other product
\* and the sum are double operations, which a contracting build does as one
\* fused multiply-add
control_output(pg, error, ffterm) ==
    IF contract THEN RFma(pg, error, ffterm) ELSE RAdd(RMul(pg, error), ffterm)

\* lines 596-650: the position loop of axis i: deadband, error and the
\* velocity command
position_loop(i, scale, periodrecip) ==
    With(deadband_or_default(deadband[i], scale), LAMBDA db :
    With(RSub(pos_cmd[i], pos_fb[i]), LAMBDA error0 :
    With(apply_deadband(error0, db), LAMBDA error :
    With(ToF32(RMul(RSub(pos_cmd[i], prev_cmd[i]), periodrecip)), LAMBDA cmd_d1 :
        [db |-> db, error0 |-> error0, error |-> error, cmd_d |-> cmd_d1,
         prev_cmd |-> ToF32(pos_cmd[i]),
         vel_cmd |-> control_output(gain_or_default(pgain[i]), error,
                                    FMul(cmd_d1, gain_or_default(ff1gain[i])))]))))

\* lines 651-657: the velocity mode takes the command from the pin and leaves
\* prev_cmd and cmd_d alone
velocity_mode(i) ==
    [db |-> Zero, error0 |-> Zero, error |-> Zero, cmd_d |-> cmd_d[i],
     prev_cmd |-> prev_cmd[i], vel_cmd |-> vel_cmd[i]]

\* lines 672-687: the accel limit, and 0 for a disabled step generator
new_vel_of(i, vel_lim, dv) ==
    IF stepgen_disabled(i) THEN Zero ELSE accel_limit(vel_lim, freq[i], dv)

\* lines 689-690 and the values the iteration leaves: new_vel is stored in the
\* float freq, and freq_cmd is that float
update_freq_out(i, sc, fc, ac, ctl, vel_lim, dv, new_vel) ==
    [pos_scale |-> sc.pos_scale, old_scale |-> sc.old_scale,
     scale_recip |-> IF sc.changed THEN scale_recip_of(sc.pos_scale) ELSE scale_recip[i],
     maxvel |-> fc.maxvel, maxaccel |-> ac.maxaccel,
     prev_cmd |-> ctl.prev_cmd,
     cmd_d |-> ctl.cmd_d,
     freq |-> ToF32(new_vel),
     loc |-> [scale_in |-> pos_scale[i], scale |-> sc.pos_scale,
              max_freq |-> fc.max_freq,
              max_ac |-> ac.max_ac, dv |-> dv, vel_cmd |-> vel_lim,
              old_freq |-> freq[i], old_freq_cmd |-> freq_cmd[i],
              enable |-> stepperEnable[i], maxvel_in |-> maxvel[i],
              maxaccel_in |-> maxaccel[i], prev_cmd_in |-> prev_cmd[i],
              new_vel |-> new_vel,
              error0 |-> ctl.error0, db |-> ctl.db, error |-> ctl.error,
              vel_raw |-> ctl.vel_cmd]]

\* lines 534-691: one iteration of the loop over the axes
update_freq_axis(i, periodrecip, dt1, recip_dt1) ==
    With(scale_check(pos_scale[i], old_scale[i]), LAMBDA sc :
    With(freq_ceiling(maxvel[i], sc.pos_scale), LAMBDA fc :
    With(accel_ceiling(maxaccel[i], sc.pos_scale, RMul(fc.max_freq, recip_dt1)), LAMBDA ac :
    With(IF pos_mode[i] THEN position_loop(i, sc.pos_scale, periodrecip)
         ELSE velocity_mode(i), LAMBDA ctl :
    With(freq_limit(RMul(ctl.vel_cmd, sc.pos_scale), fc.max_freq), LAMBDA vel_lim :
    With(RMul(ac.max_ac, dt1), LAMBDA dv :
        update_freq_out(i, sc, fc, ac, ctl, vel_lim, dv, new_vel_of(i, vel_lim, dv))))))))

\* period * 0.000000001
PeriodSeconds(p) == RMul(R(p), NanoSecond)

\* lines 521-531: dt and recip_dt follow a change of the period; periodfp and
\* periodrecip are computed at every call
update_freq_times(periodfp, chg) ==
    With(IF chg THEN periodfp ELSE dt, LAMBDA dt1 :
        [periodrecip |-> RDiv(One, periodfp), dt |-> dt1,
         recip_dt |-> IF chg THEN RDiv(One, dt1) ELSE recip_dt])

update_freq ==
    /\ phase = "freq"
    /\ ticks < MaxTicks
    /\ With(update_freq_times(PeriodSeconds(period), period # old_dtns), LAMBDA t :
       With(PerAxis([i \in Axes |-> update_freq_axis(i, t.periodrecip, t.dt, t.recip_dt)], 0),
            LAMBDA r :
           /\ old_dtns' = period
           /\ dt' = t.dt
           /\ recip_dt' = t.recip_dt
           /\ pos_scale' = [i \in Axes |-> r[i].pos_scale]
           /\ old_scale' = [i \in Axes |-> r[i].old_scale]
           /\ scale_recip' = [i \in Axes |-> r[i].scale_recip]
           /\ maxvel' = [i \in Axes |-> r[i].maxvel]
           /\ maxaccel' = [i \in Axes |-> r[i].maxaccel]
           /\ prev_cmd' = [i \in Axes |-> r[i].prev_cmd]
           /\ cmd_d' = [i \in Axes |-> r[i].cmd_d]
           /\ freq' = [i \in Axes |-> r[i].freq]
           /\ freq_cmd' = [i \in Axes |-> r[i].freq]
           /\ loc' = [i \in Axes |-> r[i].loc]))
    /\ phase' = "write"
    /\ xferW' = FALSE
    /\ xferR' = FALSE
    /\ st0' = SPIstatus
    /\ UNCHANGED <<ticks, writes, period, fcvt, contract, pos_mode, ctrl_type, app, linkVars, hostAxisVars,
                   fbVars, ioVars, pktVars, rdEnable, rdEdge, nfail, held,
                   raw_prev, truepos, msgs, pk>>


(***************************************************************************)
(* Conversions of spi_write.                                               *)
(***************************************************************************)
\* a float or double outside the range of int32_t (or NaN) converted to int32_t:
\* undefined in C; the two outcomes are those of the x86 and of the ARM builds
ConvOutOfRange(x) ==
    IF fcvt = "indefinite" THEN INT32_MIN
    ELSE IF IsNaN(x) THEN 0
    ELSE IF RSign(x) < 0 THEN INT32_MIN ELSE INT32_MAX

\* (int32_t)x for a double or a float x: the truncation toward zero
ToInt32(x) ==
    IF ~IsFinite(x) THEN ConvOutOfRange(x)
    ELSE IF IsZero(x) THEN 0
    ELSE IF x[4] + BBitLen(x[3]) > 32 THEN ConvOutOfRange(x)
    ELSE With(IF x[4] >= 0 THEN BShl(x[3], x[4]) ELSE BShr(x[3], -x[4]), LAMBDA mag :
             IF BCmp(mag, <<0, 0, 2>>) < 0 THEN x[2] * BToNat(mag)
             ELSE IF mag = <<0, 0, 2>> /\ x[2] = -1 THEN INT32_MIN
             ELSE ConvOutOfRange(x))

\* line 806: (int32_t)(a / f), a an int constant and f a float: the quotient is
\* a float
FloatDivToInt(a, f) == ToInt32(FDiv(ToF32(R(a)), f))

\* the linear encoding on a quarter of the range
linear_ticks_quarter(x, D) == ToInt32(RDiv(RMul(x, R(INT32_MAX \div 2)), R(D)))

\* line 831: (x) * (0xFFFFFFFF / 2) / (vout_max[i] - vout_min[i]), with
\* 0xFFFFFFFF / 2 = 2147483647
linear_ticks(x, D) == ToInt32(RDiv(RMul(x, R(INT32_MAX)), R(D)))

\* lines 820-833: the encoded set point of analog output i (1-based in the tables)
vout_encode(i, sp) ==
    IF vout_type[i] = VOUT_TYPE_SINE
    THEN ToInt32(RDiv(RDiv(R(PRU_OSC), sp), R(vout_freq[i])))
    ELSE IF vout_type[i] = VOUT_TYPE_PWM
    THEN ToInt32(RDiv(RMul(sp, R(PRU_OSC \div vout_freq[i])), R(100)))
    ELSE IF vout_type[i] = VOUT_TYPE_RCSERVO
    THEN ToInt32(RMul(RAdd(RAdd(sp, R(200)), R(100)), R(PRU_OSC \div 200000)))
    ELSE linear_ticks(RSub(sp, R(vout_min[i])), vout_max[i] - vout_min[i])

RECURSIVE PackBits(_, _, _)
\* sum of 2^i over i in 0 .. n-1 with bit[i], kept to one byte
PackBits(bit, n, i) ==
    IF i >= n THEN 0
    ELSE ((IF bit[i] THEN Pow2(i) ELSE 0) + PackBits(bit, n, i + 1)) % 256

\* lines 810-817 for a build with J axes run bi * J + i iterations before the
\* one of byte bi and bit i; iteration n reads stepperEnable[enable_index(J, n)]
enable_index(J, n) == (n \div J) * 8 + (n % J)

\* line 813: the array stepperEnable has J elements and pos_mode lies behind it
\* in data_t.  *(data->stepperEnable[k]) for k >= J takes ints of pos_mode (0
\* or 1) for the address of a pin and reads through it: the process is stopped
\* by a segmentation fault.  Result: the number of iterations that complete.
enable_steps(J, nbytes) ==
    LET beyond == {n \in 0 .. (nbytes * J - 1) : enable_index(J, n) >= J}
    IN  IF beyond = {} THEN nbytes * J
        ELSE CHOOSE n \in beyond : \A m \in beyond : n <= m

\* lines 810-817 for a build with J axes: enable byte bi in memory after the
\* first steps iterations.  A byte whose inner loop has ended holds its bits.
\* For the byte whose inner loop was stopped the compiler decides: the code
\* either updates txData.jointEnable[bi] in memory at every iteration (the
\* byte holds the bits set so far) or keeps it in a register until the inner
\* loop ends (reg: memory still holds the 0 of line 811).  A byte the loop
\* never reached holds the 0 of the zeroed static txData.
joint_enable_pack(J, en, steps, reg, bi) ==
    IF reg /\ steps < (bi + 1) * J THEN 0
    ELSE PackBits([i \in 0 .. (J - 1) |-> bi * J + i < steps /\ en[bi * 8 + i]], J, 0)

\* the indices of stepperEnable that lines 810-817 read for nbytes enable bytes:
\* those of the completed iterations and of the one that faults
enable_reads(J, nbytes) ==
    {enable_index(J, n) : n \in {m \in 0 .. (nbytes * J - 1) : m <= enable_steps(J, nbytes)}}

\* lines 810-817: enable byte bi.  With JOINTS axes every inner loop ends and
\* the byte is the same wherever the compiler keeps it
joint_enable_byte(bi) ==
    joint_enable_pack(JOINTS, stepperEnable, enable_steps(JOINTS, JOINT_ENABLE_BYTES),
                      FALSE, bi)

\* lines 836-843: output byte bi
output_byte(bi) ==
    PackBits([i \in 0 .. 7 |-> outputs[bi * 8 + i]], 8, 0)

(***************************************************************************)
(* The packet unions.  txData and rxData overlay a structure on the buffer *)
(* txBuffer / rxBuffer; the buffers are modelled with one cell per field   *)
(* element, in the order of the structure, and SPIBUFSIZE counts cells.    *)
(***************************************************************************)
Cells(f, lo, n) == [k \in 1 .. n |-> f[lo + k - 1]]

txBuffer(tx) ==
    <<tx.header>> \o Cells(tx.jointFreqCmd, 0, JOINTS)
                  \o Cells(tx.jointEnable, 0, JOINT_ENABLE_BYTES)
                  \o Cells(tx.setPoint, 1, VARIABLE_OUTPUTS)
                  \o Cells(tx.outputs, 0, DIGITAL_OUTPUT_BYTES)

rxBuffer(rx) ==
    <<rx.header>> \o Cells(rx.jointFeedback, 0, JOINTS)
                  \o Cells(rx.processVariable, 1, VARIABLE_INPUTS)
                  \o Cells(rx.inputs, 1, DIGITAL_INPUT_BYTES)

SPIBUFSIZE == 1 + JOINTS + VARIABLE_INPUTS + DIGITAL_INPUT_BYTES

\* the structure view of a receive buffer
rxOverlay(buf) ==
    [header |-> buf[1],
     jointFeedback |-> [i \in Axes |-> buf[2 + i]],
     processVariable |-> [k \in 1 .. VARIABLE_INPUTS |-> buf[1 + JOINTS + k]],
     inputs |-> [k \in 1 .. DIGITAL_INPUT_BYTES |->
                    buf[1 + JOINTS + VARIABLE_INPUTS + k]]]

\* one event on the bus: a chip-select pin operation or one duplex transfer
PinEvent(op, level) == [op |-> op, arg |-> level]
XferEvent(i, out, in) == [op |-> "xfer", arg |-> [i |-> i, out |-> out, in |-> in]]

\* bcm2835_spi_transfer: the n-th call of an exchange clocks out one cell and
\* returns the n-th cell the remote end shifts out
NthReply(wire, events) ==
    wire[Cardinality({k \in 1 .. Len(events) : events[k].op = "xfer"}) + 1]

\* lines 862-864: the loop of spi_transfer from index i on
RECURSIVE spi_transfer_loop(_, _, _, _)
spi_transfer_loop(i, tx, wire, st) ==
    IF i >= SPIBUFSIZE THEN st
    ELSE LET reply == NthReply(wire, st.bus)
         IN  spi_transfer_loop(i + 1, tx, wire,
                 [rx |-> [st.rx EXCEPT ![i + 1] = reply],
                  bus |-> Append(st.bus, XferEvent(i, tx[i + 1], reply))])

\* a spi_transfer whose last pin write is left out
spi_transfer_cs_held(tx, rx, pkt) ==
    LET st == spi_transfer_loop(0, txBuffer(tx), rxBuffer(pkt),
                  [rx |-> rxBuffer(rx),
                   bus |-> <<PinEvent("fsel", "OUTP"), PinEvent("write", "LOW")>>])
    IN  [rxData |-> rxOverlay(st.rx), cs |-> "LOW", bus |-> st.bus]

(***************************************************************************)
(* spi_transfer, lines 853-868: chip select pin to output and low, the     *)
(* SPIBUFSIZE transfers, chip select high.  tx and rx are the unions at    *)
(* the call, pkt is what the remote end shifts out.                        *)
(***************************************************************************)
spi_transfer(tx, rx, pkt) ==
    LET st == spi_transfer_loop(0, txBuffer(tx), rxBuffer(pkt),
                  [rx |-> rxBuffer(rx),
                   bus |-> <<PinEvent("fsel", "OUTP"), PinEvent("write", "LOW")>>])
    IN  [rxData |-> rxOverlay(st.rx), cs |-> "HIGH",
         bus |-> Append(st.bus, PinEvent("write", "HIGH"))]

NoPkt == [header |-> "none"]

(***************************************************************************)
(* spi_write.                                                              *)
(***************************************************************************)
spi_write(Pkts) ==
    /\ phase = "write"
    /\ txData' = [header |-> PRU_WRITE,
                  jointFreqCmd |-> [i \in Axes |-> FloatDivToInt(PRU_OSC, freq[i])],
                  jointEnable |-> [bi \in 0 .. (JOINT_ENABLE_BYTES - 1) |->
                                      joint_enable_byte(bi)],
                  setPoint |-> [i \in 1 .. VARIABLE_OUTPUTS |->
                                   vout_encode(i, setPoint[i])],
                  outputs |-> [bi \in 0 .. (DIGITAL_OUTPUT_BYTES - 1) |->
                                  output_byte(bi)]]
    /\ \E pkt \in (IF SPIstatus THEN Pkts ELSE {NoPkt}) :
          IF SPIstatus
          THEN With(spi_transfer(txData', rxData, pkt), LAMBDA got :
                   /\ rxData' = got.rxData
                   /\ cs' = got.cs
                   /\ bus' = got.bus)
          ELSE UNCHANGED <<rxData, cs, bus>>
    /\ xferW' = SPIstatus
    /\ phase' = "read"
    /\ UNCHANGED <<ticks, writes, period, fcvt, contract, pos_mode, ctrl_type, app, linkVars, hostAxisVars,
                   fbVars, freqVars, pos_scale, scale_recip, ioVars,
                   xferR, rdEnable, rdEdge, st0, nfail, held, raw_prev, truepos, msgs, pk>>


(***************************************************************************)
(* spi_read: the gate, the header switch and the feedback decode.          *)
(***************************************************************************)
\* the gate with the reset input taken by level
spi_gate_level == SPIreset \/ SPIstatus

\* the gate without the reset edge
spi_gate_status_only == SPIstatus

\* line 714
spi_gate == (SPIreset /\ ~SPIresetOld) \/ SPIstatus

\* the header switch with a default case that leaves the status alone
status_after_keep(header, st) ==
    IF header = PRU_DATA THEN TRUE
    ELSE IF header = PRU_ESTOP THEN FALSE
    ELSE st

\* lines 720-784: SPI-status after the switch on the received header
status_after(header, st) == header = PRU_DATA

\* the header switch with the e-stop case falling into the payload decode
payload_accepted_estop(header) == header \in {PRU_DATA, PRU_ESTOP}

\* the payload decoded whatever the header
payload_accepted_any(header) == TRUE

\* lines 720-721: the payload is decoded in the PRU_DATA case only
payload_accepted(header) == header = PRU_DATA

\* lines 770-784: what the switch on the header prints.  The PRU_ESTOP case has
\* no break and runs on into the default case.
MsgEstop == "An E-stop is active"
MsgBadPayload == "Bad SPI payload"
spi_read_messages(header) ==
    IF header = PRU_DATA THEN <<>>
    ELSE IF header = PRU_ESTOP THEN <<MsgEstop, MsgBadPayload>>
    ELSE <<MsgBadPayload>>

\* SPIresetOld recorded in the enabled branch only
resetOld_after_enabled(pin) == IF SPIenable THEN pin ELSE SPIresetOld

\* line 791: SPIresetOld after spi_read, pin the SPI-reset pin as this line
\* reads it
resetOld_after(pin) == pin

\* lines 741-743: (float)(((double)accum + 0.5) / pos_scale)
pos_fb_rel(acc, scale) == ToF32(RDiv(RAdd(WToDouble(acc), Half), scale))

\* line 729: (float)(jointFeedback) / pos_scale
pos_fb_abs(fb, scale) == RDiv(ToF32(R(fb)), scale)

\* a decode that takes every axis for an incremental one
decode_axis_all_incremental(i, raw) ==
    LET fb == CDiv(raw, joints_fb_scale[i + 1])
        diff == Sub32(fb, old_count[i])
        acc == WAdd(accum[i], diff)
    IN  [fb |-> fb, rel |-> TRUE,
         pos_fb |-> pos_fb_rel(acc, pos_scale[i]),
         count |-> WToInt32(acc), accum |-> acc, old_count |-> fb,
         scale_recip |-> ToF32(pos_scale[i]), diff |-> diff]

\* lines 726-744 for axis i, raw the counter received for it
decode_axis(i, raw) ==
    LET fb == CDiv(raw, joints_fb_scale[i + 1])
        diff == Sub32(fb, old_count[i])
        acc == WAdd(accum[i], diff)
    IN  IF joints_fb_type[i + 1] = JOINT_FB_ABS
        THEN [fb |-> fb, rel |-> FALSE, pos_fb |-> pos_fb_abs(fb, pos_scale[i]),
              count |-> count[i], accum |-> accum[i], old_count |-> old_count[i],
              scale_recip |-> scale_recip[i], diff |-> 0]
        ELSE [fb |-> fb, rel |-> TRUE,
              pos_fb |-> pos_fb_rel(acc, pos_scale[i]),
              count |-> WToInt32(acc), accum |-> acc, old_count |-> fb,
              scale_recip |-> ToF32(pos_scale[i]), diff |-> diff]

\* accum_diff after the loop: the difference of the last incremental axis
RECURSIVE LastDiff(_, _, _)
LastDiff(r, i, d) ==
    IF i >= JOINTS THEN d
    ELSE LastDiff(r, i + 1, IF r[i].rel THEN r[i].diff ELSE d)

InputBits == 0 .. (DIGITAL_INPUT_BYTES * 8 - 1)

\* the slot of data->inputs used for bit number k = bi * 8 + i (lines 306, 759)
InputSlot(k) == (k \div 8) * 8 + (k % 8) * 2

\* the pin a slot points to: rtapi_app_main registers the pins in the order of
\* k, each registration storing the new pin's address in its slot
SlotPin(s) ==
    LET ks == {k \in InputBits : InputSlot(k) = s \/ InputSlot(k) + 1 = s}
        k == CHOOSE x \in ks : \A y \in ks : y <= x
    IN  IF InputSlot(k) = s THEN <<"in", k>> ELSE <<"not", k>>

\* *(data->inputs[s]) = v on the pins pins = [in |-> .., not |-> ..]
StorePin(pins, s, v) ==
    LET pin == SlotPin(s)
    IN  IF pin[1] = "in" THEN [pins EXCEPT !.in[pin[2]] = v]
        ELSE [pins EXCEPT !.not[pin[2]] = v]

BitOf(byte, i) == (byte \div Pow2(i)) % 2

\* lines 756-767, from bit number k on
RECURSIVE decode_inputs(_, _, _)
decode_inputs(pins, bytes, k) ==
    IF k >= DIGITAL_INPUT_BYTES * 8 THEN pins
    ELSE LET b == BitOf(bytes[(k \div 8) + 1], k % 8)
             p1 == StorePin(pins, InputSlot(k), b)
             p2 == StorePin(p1, InputSlot(k) + 1, 1 - b)
         IN  decode_inputs(p2, bytes, k + 1)

spi_read(Pkts, concurrent) ==
    /\ phase = "read"
    /\ txData' = [txData EXCEPT !.header = PRU_READ]
    /\ LET gate == SPIenable /\ spi_gate
       IN  /\ \E pkt \in (IF gate THEN Pkts ELSE {NoPkt}) :
                IF gate
                THEN With(spi_transfer(txData', rxData, pkt), LAMBDA got :
                     With(PerAxis([i \in Axes |->
                                      decode_axis(i, got.rxData.jointFeedback[i])], 0),
                          LAMBDA r :
                     With(decode_inputs([in |-> inputs, not |-> inputs_not],
                                        got.rxData.inputs, 0), LAMBDA pins :
                         /\ cs' = got.cs
                         /\ bus' = got.bus
                         /\ SPIstatus' = status_after(got.rxData.header, SPIstatus)
                         /\ IF payload_accepted(got.rxData.header)
                            THEN /\ rxData' = [got.rxData EXCEPT !.jointFeedback =
                                                   [i \in Axes |-> r[i].fb]]
                                 /\ pos_fb' = [i \in Axes |-> r[i].pos_fb]
                                 /\ count' = [i \in Axes |-> r[i].count]
                                 /\ accum' = [i \in Axes |-> r[i].accum]
                                 /\ old_count' = [i \in Axes |-> r[i].old_count]
                                 /\ scale_recip' = [i \in Axes |-> r[i].scale_recip]
                                 /\ accum_diff' = LastDiff(r, 0, accum_diff)
                                 /\ processVariable' =
                                        [i \in 1 .. VARIABLE_INPUTS |->
                                            R(got.rxData.processVariable[i])]
                                 /\ inputs' = pins.in
                                 /\ inputs_not' = pins.not
                                 /\ raw_prev' = got.rxData.jointFeedback
                                 /\ truepos' = [i \in Axes |->
                                        WAdd(truepos[i],
                                             Sub32(got.rxData.jointFeedback[i],
                                                   raw_prev[i]))]
                            ELSE /\ rxData' = got.rxData
                                 /\ UNCHANGED <<fbVars, scale_recip, raw_prev,
                                                truepos>>)))
                ELSE /\ SPIstatus' = (IF SPIenable THEN SPIstatus ELSE FALSE)
                     /\ UNCHANGED <<rxData, cs, bus, fbVars, scale_recip, raw_prev, truepos>>
           /\ xferR' = gate
           /\ msgs' = (IF gate THEN spi_read_messages(rxData'.header) ELSE <<>>)
           /\ nfail' = (IF (SPIreset /\ ~SPIresetOld)
                           \/ (xferW /\ rxData.header = PRU_DATA)
                           \/ (gate /\ rxData'.header = PRU_DATA)
                        THEN 0
                        ELSE nfail + (IF xferW THEN 1 ELSE 0) + (IF gate THEN 1 ELSE 0))
    \* line 791 reads SPI-reset again: where iocontrol runs beside the servo
    \* thread (concurrent) it may have written the pin since line 714 read it
    /\ \E pin \in (IF concurrent THEN BOOLEAN ELSE {SPIreset}) :
          /\ SPIreset' = pin
          /\ SPIresetOld' = resetOld_after(pin)
    /\ held' = (IF ~SPIreset \/ ~SPIreset' THEN 0
                ELSE IF held > 0 THEN 2
                ELSE IF ~SPIenable /\ ~SPIresetOld THEN 1
                ELSE 0)
    /\ rdEnable' = SPIenable
    /\ rdEdge' = (SPIreset /\ ~SPIresetOld)
    /\ ticks' = ticks + 1
    /\ phase' = "freq"
    /\ UNCHANGED <<writes, period, fcvt, contract, pos_mode, ctrl_type, app, SPIenable,
                   hostAxisVars,
                   freqVars, pos_scale, ioVars, xferW, st0, pk>>


(***************************************************************************)
(* The host: pins and parameters written between ticks.                    *)
(***************************************************************************)
\* values of the pins and parameters: among them values that are no floats
\* (65536 + 2^-9) or no doubles (1/10 and 31/10, rounded to the nearest
\* double), a scale whose reciprocal is no double, an acceleration limit above
\* every ceiling of the periods explored, and a gain (-3) with a command
\* (31/10) for which the fused and the unfused sum of line 648 differ
ScaleVals == {Zero, One, R(-2), R(3)}
AccelVals == {R(-1), One, R(100000000), Norm(1, 10)}
CmdVals == {Zero, R(3), Norm(1, 10), Norm(31, 10)}
VelVals == {Zero, R(2), R(-3), Norm(33554433, 512)}
GainVals == {Zero, R(2), R(-3)}
DeadbandVals == {Zero, One}

\* iocontrol drives SPI-enable and SPI-reset.  It runs in user space, not in
\* the servo thread: it writes before, between and after the callbacks of a tick
HostLink ==
    /\ phase \in {"freq", "write", "read"}
    /\ ticks < MaxTicks
    /\ \E e \in BOOLEAN, r \in BOOLEAN :
          /\ <<e, r>> # <<SPIenable, SPIreset>>
          /\ SPIenable' = e
          /\ SPIreset' = r
    /\ UNCHANGED <<ctlVars, SPIresetOld, SPIstatus, hostAxisVars, fbVars, freqVars,
                   pos_scale, scale_recip, ioVars, pktVars, ghostVars>>

HostFrame == UNCHANGED <<phase, ticks, period, fcvt, contract, pos_mode, ctrl_type, app, linkVars, fbVars,
                         freqVars, scale_recip, ioVars, pktVars, ghostVars>>

HostGuard ==
    /\ phase = "freq"
    /\ ticks < MaxTicks
    /\ writes < MaxWrites
    /\ writes' = writes + 1

\* setp rio.joint.i.scale
HostScale(i) ==
    /\ HostGuard
    /\ \E v \in ScaleVals \ {pos_scale[i]} : pos_scale' = [pos_scale EXCEPT ![i] = v]
    /\ UNCHANGED <<maxaccel, hostAxisVars>>
    /\ UNCHANGED <<phase, ticks, period, fcvt, contract, pos_mode, ctrl_type, app, linkVars, fbVars,
                   freq, freq_cmd, maxvel, prev_cmd, cmd_d, old_scale,
                   old_dtns, dt, recip_dt, loc, scale_recip, ioVars, pktVars, ghostVars>>

\* setp rio.joint.i.maxaccel
HostMaxaccel(i) ==
    /\ HostGuard
    /\ \E v \in AccelVals \ {maxaccel[i]} : maxaccel' = [maxaccel EXCEPT ![i] = v]
    /\ UNCHANGED <<pos_scale, hostAxisVars>>
    /\ UNCHANGED <<phase, ticks, period, fcvt, contract, pos_mode, ctrl_type, app, linkVars, fbVars,
                   freq, freq_cmd, maxvel, prev_cmd, cmd_d, old_scale,
                   old_dtns, dt, recip_dt, loc, scale_recip, ioVars, pktVars, ghostVars>>

\* rio.joint.i.enable
HostEnable(i) ==
    /\ HostGuard
    /\ stepperEnable' = [stepperEnable EXCEPT ![i] = ~stepperEnable[i]]
    /\ UNCHANGED <<pos_cmd, vel_cmd, pgain, ff1gain, deadband, pos_scale>>
    /\ HostFrame

\* rio.joint.i.pos-cmd, pgain, ff1gain, deadband (read in position mode only)
HostPosCmd(i) ==
    /\ HostGuard
    /\ pos_mode[i]
    /\ \E v \in CmdVals \ {pos_cmd[i]} : pos_cmd' = [pos_cmd EXCEPT ![i] = v]
    /\ UNCHANGED <<stepperEnable, vel_cmd, pgain, ff1gain, deadband, pos_scale>>
    /\ HostFrame

HostGains(i) ==
    /\ HostGuard
    /\ pos_mode[i]
    /\ \E pg \in GainVals, ff \in GainVals, db \in DeadbandVals :
          /\ Cardinality({k \in 1 .. 3 : <<pg, ff, db>>[k] #
                                          <<pgain[i], ff1gain[i], deadband[i]>>[k]}) = 1
          /\ pgain' = [pgain EXCEPT ![i] = pg]
          /\ ff1gain' = [ff1gain EXCEPT ![i] = ff]
          /\ deadband' = [deadband EXCEPT ![i] = db]
    /\ UNCHANGED <<stepperEnable, pos_cmd, vel_cmd, pos_scale>>
    /\ HostFrame

\* rio.joint.i.vel-cmd (the pin exists in velocity mode only)
HostVelCmd(i) ==
    /\ HostGuard
    /\ ~pos_mode[i]
    /\ \E v \in VelVals \ {vel_cmd[i]} : vel_cmd' = [vel_cmd EXCEPT ![i] = v]
    /\ UNCHANGED <<stepperEnable, pos_cmd, pgain, ff1gain, deadband, pos_scale>>
    /\ HostFrame

\* rio.SP.n: the set point of an analog output
SetPointVals == {Zero, Norm(5, 2), R(5), R(10), R(11)}

HostSetPoint ==
    /\ HostGuard
    /\ \E n \in 1 .. VARIABLE_OUTPUTS :
          \E v \in SetPointVals \ {setPoint[n]} :
              setPoint' = [setPoint EXCEPT ![n] = v]
    /\ UNCHANGED <<phase, ticks, period, fcvt, contract, pos_mode, ctrl_type, app, linkVars, hostAxisVars,
                   fbVars, freqVars, pos_scale, scale_recip, outputs, pktVars,
                   ghostVars>>

\* the settings of the position-loop scenario on axis 0: scale 1000, pgain 1,
\* ff1gain 0, deadband 0, with any acceleration limit and enable
HostScenarioSetup ==
    /\ HostGuard
    /\ pos_mode[0]
    /\ \E a \in AccelVals, e \in BOOLEAN :
          /\ maxaccel' = [maxaccel EXCEPT ![0] = a]
          /\ stepperEnable' = [stepperEnable EXCEPT ![0] = e]
    /\ pos_scale' = [pos_scale EXCEPT ![0] = R(1000)]
    /\ pgain' = [pgain EXCEPT ![0] = One]
    /\ ff1gain' = [ff1gain EXCEPT ![0] = Zero]
    /\ deadband' = [deadband EXCEPT ![0] = Zero]
    /\ UNCHANGED <<pos_cmd, vel_cmd>>
    /\ UNCHANGED <<phase, ticks, period, fcvt, contract, pos_mode, ctrl_type, app, linkVars, fbVars,
                   freq, freq_cmd, maxvel, prev_cmd, cmd_d, old_scale,
                   old_dtns, dt, recip_dt, loc, scale_recip, ioVars, pktVars, ghostVars>>

\* the command of axis 0 steps between 0.0 and 1.0
HostScenarioStep ==
    /\ HostGuard
    /\ pos_mode[0]
    /\ \E c \in {Zero, One} \ {pos_cmd[0]} : pos_cmd' = [pos_cmd EXCEPT ![0] = c]
    /\ UNCHANGED <<stepperEnable, vel_cmd, pgain, ff1gain, deadband, pos_scale>>
    /\ HostFrame

HostAxis ==
    \E i \in Axes :
        \/ HostScale(i)
        \/ HostMaxaccel(i)
        \/ HostEnable(i)
        \/ HostPosCmd(i)
        \/ HostGains(i)
        \/ HostVelCmd(i)

(***************************************************************************)
(* The remote end's packets.                                               *)
(***************************************************************************)
\* the second payload carries 2^25 + 3 for the absolute axis: an odd counter
\* whose half, 2^24 + 1, is no single-precision number
Payloads ==
    { [jointFeedback |-> [i \in Axes |-> 0], processVariable |-> <<0>>,
       inputs |-> <<0, 0>>],
      [jointFeedback |-> [i \in Axes |-> IF i = 0 THEN 5
                                         ELSE IF i = 1 THEN 33554435 ELSE -6],
       processVariable |-> <<7>>, inputs |-> <<21, 129>>] }

Packet(h, pl) == [header |-> h, jointFeedback |-> pl.jointFeedback,
                  processVariable |-> pl.processVariable, inputs |-> pl.inputs]

LinkPackets == {Packet(h, pl) : h \in {PRU_DATA, PRU_ESTOP, "junk"}, pl \in Payloads}

\* counters next to the two ends of the int32_t range on the last axis: from
\* one to the other the remote counter moves by 3 and wraps
RollPayloads ==
    { [jointFeedback |-> [i \in Axes |-> IF i = JOINTS - 1 THEN INT32_MAX - 1 ELSE 5],
       processVariable |-> <<0>>, inputs |-> <<0, 0>>],
      [jointFeedback |-> [i \in Axes |-> IF i = JOINTS - 1 THEN INT32_MIN + 1 ELSE -6],
       processVariable |-> <<0>>, inputs |-> <<0, 0>>] }

RollPackets == {Packet(h, pl) : h \in {PRU_DATA, "junk"}, pl \in RollPayloads}

\* no packing has been applied yet
NoPacking == [J |-> 0, en |-> <<>>, jointEnable |-> <<>>, reads |-> {}, fault |-> FALSE]

(***************************************************************************)
(* The state rtapi_app_main leaves (lines 201-313) on a successful load    *)
(* with the control tags ctrl.                                             *)
(***************************************************************************)
Periods == {1000000000, 500000000}

\* line 154: data = hal_malloc(sizeof(data_t)).  The block lies in the HAL
\* shared memory, which is zero-filled: the fields rtapi_app_main does not
\* assign hold zero
ZeroMem ==
    [SPIresetOld |-> FALSE, freq |-> Zero, maxvel |-> Zero, old_scale |-> Zero,
     prev_cmd |-> Zero, cmd_d |-> Zero, scale_recip |-> Zero]

CtrlConfigs == { <<<<"p">>, <<"v">>, <<"P">>>>, <<NullTag, <<"V", "e", "l">>, <<>>>> }

\* the tag list used where the host drives the axes
FreqCtrl == <<<<"p">>, <<"v">>, <<"p">>>>

\* the builds: the outcome of an out-of-range conversion to int32_t, and
\* whether the compiler contracts line 648 into a fused multiply-add
Builds == [fcvt : {"indefinite", "saturate"}, contract : BOOLEAN]

\* the module parameters, fields, pins and parameters as a successful
\* rtapi_app_main leaves them (lines 154-313), with the model's bookkeeping
Image(ctrl, mem, per, build) ==
    [ phase |-> "freq",
      ticks |-> 0,
      writes |-> 0,
      period |-> per,
      fcvt |-> build.fcvt,
      contract |-> build.contract,
      SPIenable |-> FALSE,
      SPIreset |-> FALSE,
      SPIstatus |-> FALSE,
      SPIresetOld |-> mem.SPIresetOld,
      pos_mode |-> [n \in Axes |-> parse_ctrl_type(ctrl[n + 1]) = "POSITION"],
      stepperEnable |-> [n \in Axes |-> FALSE],
      pos_cmd |-> [n \in Axes |-> Zero],
      vel_cmd |-> [n \in Axes |-> Zero],
      freq_cmd |-> [n \in Axes |-> Zero],
      pos_fb |-> [n \in Axes |-> Zero],
      pos_scale |-> [n \in Axes |-> One],
      count |-> [n \in Axes |-> 0],
      pgain |-> [n \in Axes |-> Zero],
      ff1gain |-> [n \in Axes |-> Zero],
      deadband |-> [n \in Axes |-> Zero],
      maxaccel |-> [n \in Axes |-> One],
      freq |-> [n \in Axes |-> mem.freq],
      maxvel |-> [n \in Axes |-> mem.maxvel],
      old_scale |-> [n \in Axes |-> mem.old_scale],
      prev_cmd |-> [n \in Axes |-> mem.prev_cmd],
      cmd_d |-> [n \in Axes |-> mem.cmd_d],
      scale_recip |-> [n \in Axes |-> mem.scale_recip],
      setPoint |-> [n \in 1 .. VARIABLE_OUTPUTS |-> Zero],
      processVariable |-> [n \in 1 .. VARIABLE_INPUTS |-> Zero],
      outputs |-> [n \in 0 .. (DIGITAL_OUTPUT_BYTES * 8 - 1) |-> FALSE],
      inputs |-> [k \in InputBits |-> 0],
      inputs_not |-> [k \in InputBits |-> 1],
      old_dtns |-> 0,
      dt |-> Zero,
      recip_dt |-> Zero,
      accum |-> [n \in Axes |-> WZero],
      old_count |-> [n \in Axes |-> 0],
      accum_diff |-> 0,
      txData |-> [header |-> "zero",
                  jointFreqCmd |-> [n \in Axes |-> 0],
                  jointEnable |-> [bi \in 0 .. (JOINT_ENABLE_BYTES - 1) |-> 0],
                  setPoint |-> [n \in 1 .. VARIABLE_OUTPUTS |-> 0],
                  outputs |-> [bi \in 0 .. (DIGITAL_OUTPUT_BYTES - 1) |-> 0]],
      rxData |-> [header |-> "zero", jointFeedback |-> [n \in Axes |-> 0],
                  processVariable |-> <<0>>, inputs |-> <<0, 0>>],
      cs |-> "unset",
      bus |-> <<>>,
      msgs |-> <<>>,
      pk |-> NoPacking,
      xferW |-> FALSE,
      xferR |-> FALSE,
      rdEnable |-> FALSE,
      rdEdge |-> FALSE,
      st0 |-> FALSE,
      nfail |-> 0,
      held |-> 0,
      raw_prev |-> [n \in Axes |-> 0],
      truepos |-> [n \in Axes |-> WZero],
      loc |-> [n \in Axes |-> [scale_in |-> One, scale |-> One, max_freq |-> Zero,
                               max_ac |-> Zero, dv |-> Zero, vel_cmd |-> Zero,
                               old_freq |-> Zero, old_freq_cmd |-> Zero,
                               enable |-> FALSE, maxvel_in |-> Zero,
                               maxaccel_in |-> Zero, new_vel |-> Zero,
                               prev_cmd_in |-> Zero, error0 |-> Zero, db |-> Zero,
                               error |-> Zero, vel_raw |-> Zero]] ]

\* the state is the image s
StateIs(s) ==
    /\ phase = s.phase
    /\ ticks = s.ticks
    /\ writes = s.writes
    /\ period = s.period
    /\ fcvt = s.fcvt
    /\ contract = s.contract
    /\ SPIenable = s.SPIenable
    /\ SPIreset = s.SPIreset
    /\ SPIstatus = s.SPIstatus
    /\ SPIresetOld = s.SPIresetOld
    /\ pos_mode = s.pos_mode
    /\ stepperEnable = s.stepperEnable
    /\ pos_cmd = s.pos_cmd
    /\ vel_cmd = s.vel_cmd
    /\ freq_cmd = s.freq_cmd
    /\ pos_fb = s.pos_fb
    /\ pos_scale = s.pos_scale
    /\ count = s.count
    /\ pgain = s.pgain
    /\ ff1gain = s.ff1gain
    /\ deadband = s.deadband
    /\ maxaccel = s.maxaccel
    /\ freq = s.freq
    /\ maxvel = s.maxvel
    /\ old_scale = s.old_scale
    /\ prev_cmd = s.prev_cmd
    /\ cmd_d = s.cmd_d
    /\ scale_recip = s.scale_recip
    /\ setPoint = s.setPoint
    /\ processVariable = s.processVariable
    /\ outputs = s.outputs
    /\ inputs = s.inputs
    /\ inputs_not = s.inputs_not
    /\ old_dtns = s.old_dtns
    /\ dt = s.dt
    /\ recip_dt = s.recip_dt
    /\ accum = s.accum
    /\ old_count = s.old_count
    /\ accum_diff = s.accum_diff
    /\ txData = s.txData
    /\ rxData = s.rxData
    /\ cs = s.cs
    /\ bus = s.bus
    /\ msgs = s.msgs
    /\ pk = s.pk
    /\ xferW = s.xferW
    /\ xferR = s.xferR
    /\ rdEnable = s.rdEnable
    /\ rdEdge = s.rdEdge
    /\ st0 = s.st0
    /\ nfail = s.nfail
    /\ held = s.held
    /\ raw_prev = s.raw_prev
    /\ truepos = s.truepos
    /\ loc = s.loc

\* the next state is the image s
StateBecomes(s) ==
    /\ phase' = s.phase
    /\ ticks' = s.ticks
    /\ writes' = s.writes
    /\ period' = s.period
    /\ fcvt' = s.fcvt
    /\ contract' = s.contract
    /\ SPIenable' = s.SPIenable
    /\ SPIreset' = s.SPIreset
    /\ SPIstatus' = s.SPIstatus
    /\ SPIresetOld' = s.SPIresetOld
    /\ pos_mode' = s.pos_mode
    /\ stepperEnable' = s.stepperEnable
    /\ pos_cmd' = s.pos_cmd
    /\ vel_cmd' = s.vel_cmd
    /\ freq_cmd' = s.freq_cmd
    /\ pos_fb' = s.pos_fb
    /\ pos_scale' = s.pos_scale
    /\ count' = s.count
    /\ pgain' = s.pgain
    /\ ff1gain' = s.ff1gain
    /\ deadband' = s.deadband
    /\ maxaccel' = s.maxaccel
    /\ freq' = s.freq
    /\ maxvel' = s.maxvel
    /\ old_scale' = s.old_scale
    /\ prev_cmd' = s.prev_cmd
    /\ cmd_d' = s.cmd_d
    /\ scale_recip' = s.scale_recip
    /\ setPoint' = s.setPoint
    /\ processVariable' = s.processVariable
    /\ outputs' = s.outputs
    /\ inputs' = s.inputs
    /\ inputs_not' = s.inputs_not
    /\ old_dtns' = s.old_dtns
    /\ dt' = s.dt
    /\ recip_dt' = s.recip_dt
    /\ accum' = s.accum
    /\ old_count' = s.old_count
    /\ accum_diff' = s.accum_diff
    /\ txData' = s.txData
    /\ rxData' = s.rxData
    /\ cs' = s.cs
    /\ bus' = s.bus
    /\ msgs' = s.msgs
    /\ pk' = s.pk
    /\ xferW' = s.xferW
    /\ xferR' = s.xferR
    /\ rdEnable' = s.rdEnable
    /\ rdEdge' = s.rdEdge
    /\ st0' = s.st0
    /\ nfail' = s.nfail
    /\ held' = s.held
    /\ raw_prev' = s.raw_prev
    /\ truepos' = s.truepos
    /\ loc' = s.loc

\* the load has not been attempted; rtapi_app_main returned 0 after hal_ready
NotLoaded == [stage |-> "start", retval |-> 0, hal |-> FALSE, comp |-> FALSE]
Installed == [stage |-> "ready", retval |-> 0, hal |-> TRUE, comp |-> TRUE]

Loaded(ctrl, mem, per, build) ==
    /\ \A n \in Axes : parse_ctrl_type(ctrl[n + 1]) # "INVALID"
    /\ StateIs(Image(ctrl, mem, per, build))
    /\ ctrl_type = ctrl
    /\ app = Installed

Init == \E ctrl \in CtrlConfigs, per \in Periods, build \in Builds :
           Loaded(ctrl, ZeroMem, per, build)

\* the loads explored with the host driving the axes: one tag list, one period
InitFreq == \E build \in Builds : Loaded(FreqCtrl, ZeroMem, 500000000, build)

(***************************************************************************)
(* Specifications.  SpecLink: the host drives the link pins and the remote *)
(* end answers with any packet; SpecFreq: the host drives the axis pins    *)
(* and parameters.                                                         *)
(***************************************************************************)
NextLink == HostLink \/ update_freq \/ spi_write(LinkPackets) \/ spi_read(LinkPackets, TRUE)

SpecLink == Init /\ [][NextLink]_vars

\* SpecRoll: the link of SpecLink with the remote counters of RollPackets
InitRoll == \E ctrl \in CtrlConfigs, build \in Builds :
               Loaded(ctrl, ZeroMem, 1000000000, build)

NextRoll == HostLink \/ update_freq \/ spi_write(RollPackets) \/ spi_read(RollPackets, TRUE)

SpecRoll == InitRoll /\ [][NextRoll]_vars

(***************************************************************************)
(* The joint-enable packing of spi_write (lines 810-817) applied to builds *)
(* with J axes and ceil(J / 8) enable bytes.                               *)
(***************************************************************************)
JointCounts == {3, 8, 9}

EnableBytes(J) == (J + 7) \div 8

\* enable inputs: every combination up to one enable byte, a few patterns beyond
EnableInputs(J) ==
    IF J <= 8 THEN [0 .. (J - 1) -> BOOLEAN]
    ELSE { [k \in 0 .. (J - 1) |-> FALSE], [k \in 0 .. (J - 1) |-> TRUE],
           [k \in 0 .. (J - 1) |-> k = J - 1], [k \in 0 .. (J - 1) |-> k % 2 = 0] }

\* pk.jointEnable is txData.jointEnable when the loop has ended or the process
\* has been stopped.  The read beyond the array is undefined behaviour: what
\* the byte under construction holds in memory at the stop depends on the
\* compiled code (reg, see joint_enable_pack)
PackEnables ==
    \E J \in JointCounts :
        \E en \in EnableInputs(J), reg \in BOOLEAN :
            /\ pk' = [J |-> J, en |-> en,
                      jointEnable |-> [bi \in 0 .. (EnableBytes(J) - 1) |->
                          joint_enable_pack(J, en, enable_steps(J, EnableBytes(J)),
                                            reg, bi)],
                      reads |-> enable_reads(J, EnableBytes(J)),
                      fault |-> enable_steps(J, EnableBytes(J)) < EnableBytes(J) * J]
            /\ UNCHANGED <<ctlVars, linkVars, hostAxisVars, fbVars, freqVars, pos_scale,
                           scale_recip, ioVars, pktVars, xferW, xferR, rdEnable, rdEdge,
                           st0, nfail, held, raw_prev, truepos, msgs>>

InitPack == \E build \in Builds :
                Loaded(FreqCtrl, ZeroMem,
                       1000000000, build)

SpecPack == InitPack /\ [][PackEnables]_vars

(***************************************************************************)
(* Runs in which the counter of the first axis (incremental, divisor 1)    *)
(* wraps: the counter is next to one end of the int32_t range in every     *)
(* packet.  The HAL file has set every axis's scale to 2 before the first  *)
(* tick (setp rio.joint.N.scale), and every axis is velocity-controlled.   *)
(***************************************************************************)
VelCtrl == <<<<"v">>, <<"v">>, <<"v">>>>

CountPayloads ==
    { [jointFeedback |-> [i \in Axes |-> IF i = 0 THEN INT32_MAX - 1 ELSE 5],
       processVariable |-> <<0>>, inputs |-> <<0, 0>>],
      [jointFeedback |-> [i \in Axes |-> IF i = 0 THEN INT32_MIN + 1 ELSE -6],
       processVariable |-> <<0>>, inputs |-> <<0, 0>>] }

CountPackets == {Packet(h, pl) : h \in {PRU_DATA, "junk"}, pl \in CountPayloads}

InitCount ==
    \E build \in Builds :
        /\ \A n \in Axes : parse_ctrl_type(VelCtrl[n + 1]) # "INVALID"
        /\ StateIs([Image(VelCtrl, ZeroMem, 1000000000, build)
                       EXCEPT !.pos_scale = [n \in Axes |-> R(2)]])
        /\ ctrl_type = VelCtrl
        /\ app = Installed

NextCount == HostLink \/ update_freq \/ spi_write(CountPackets) \/ spi_read(CountPackets, TRUE)

SpecCount == InitCount /\ [][NextCount]_vars

OutPackets == {Packet(h, pl) : h \in {PRU_DATA, "junk"},
                              pl \in {pl \in Payloads : pl.inputs = <<0, 0>>}}

(***************************************************************************)
(* rtapi_app_main (lines 130-360).  The calls into HAL and into the        *)
(* bcm2835 library succeed or fail as the environment decides: out is the  *)
(* first call that fails, or "ready".                                      *)
(***************************************************************************)
LoadOutcomes == {"hal_init", "hal_malloc", "rt_bcm2835_init", "bcm2835_spi_begin",
                 "pin", "funct", "ready"}

\* whether the component is registered when rtapi_app_main returns after its
\* call out failed: hal_exit is called on the hal_malloc, pin and function
\* export paths, not on the two bcm2835 paths
comp_after(out) == out \in {"rt_bcm2835_init", "bcm2835_spi_begin"}

rtapi_app_main ==
    /\ phase = "load"
    /\ IF \E n \in Axes : parse_ctrl_type(ctrl_type[n + 1]) = "INVALID"
       THEN /\ app' = [stage |-> "ctrl_type", retval |-> -1, hal |-> FALSE,
                       comp |-> FALSE]
            /\ phase' = "failed"
            /\ UNCHANGED <<ticks, writes, period, fcvt, contract, pos_mode, ctrl_type, linkVars,
                           hostAxisVars, fbVars, freqVars, pos_scale, scale_recip,
                           ioVars, pktVars, ghostVars>>
       ELSE \E out \in LoadOutcomes :
               IF out = "ready"
               THEN /\ StateBecomes(Image(ctrl_type, ZeroMem, period,
                                          [fcvt |-> fcvt, contract |-> contract]))
                    /\ app' = Installed
                    /\ UNCHANGED ctrl_type
               ELSE /\ app' = [stage |-> out, retval |-> -1, hal |-> TRUE,
                               comp |-> comp_after(out)]
                    /\ phase' = "failed"
                    /\ UNCHANGED <<ticks, writes, period, fcvt, contract, pos_mode, ctrl_type,
                                   linkVars, hostAxisVars, fbVars, freqVars, pos_scale,
                                   scale_recip, ioVars, pktVars, ghostVars>>

\* rtapi_app_exit (lines 362-365): hal_exit(comp_id).  RTAPI calls it when a
\* component whose rtapi_app_main returned 0 is unloaded; the servo thread
\* stands between two ticks.  The component is no longer registered and its
\* functions run no more
rtapi_app_exit ==
    /\ phase = "freq"
    /\ app = Installed
    /\ app' = [app EXCEPT !.comp = FALSE]
    /\ phase' = "unloaded"
    /\ UNCHANGED <<ticks, writes, period, fcvt, contract, pos_mode, ctrl_type, linkVars,
                   hostAxisVars, fbVars, freqVars, pos_scale, scale_recip,
                   ioVars, pktVars, ghostVars>>

\* the tag lists of the loads explored: those of CtrlConfigs and lists with a
\* tag that begins with none of p, P, v, V
LoadConfigs ==
    CtrlConfigs \cup { <<<<"P", "o", "s">>, <<"v">>, <<"V">>>>,
                       <<<<"x">>, <<"p">>, <<"p">>>>,
                       <<<<"p">>, <<"s", "p">>, <<"v">>>>,
                       <<NullTag, <<>>, <<"0">>>>,
                       <<<<" ", "p">>, <<"v">>, <<"e">>>> }

\* before the load nothing is allocated: the fields and pins hold the values
\* of a zero image until rtapi_app_main sets them
InitLoad ==
    \E ctrl \in LoadConfigs, build \in Builds :
        /\ StateIs([Image(<<NullTag, NullTag, NullTag>>,
                          ZeroMem,
                          1000000000, build) EXCEPT !.phase = "load"])
        /\ ctrl_type = ctrl
        /\ app = NotLoaded

\* SpecLoad: the load, the link as in SpecOut, the unload
NextLoad == rtapi_app_main \/ HostLink \/ update_freq \/ spi_write(OutPackets)
               \/ spi_read(OutPackets, TRUE) \/ rtapi_app_exit

SpecLoad == InitLoad /\ [][NextLoad]_vars

\* SpecOut: the host drives the link pins and the analog set point
InitOut == \E build \in Builds :
              Loaded(FreqCtrl, ZeroMem,
                     500000000, build)

NextOut == HostLink \/ HostSetPoint \/ update_freq \/ spi_write(OutPackets)
              \/ spi_read(OutPackets, TRUE)

SpecOut == InitOut /\ [][NextOut]_vars

\* SpecScenario: the host sets up the position-loop scenario and steps the command
NextScenario == HostScenarioSetup \/ HostScenarioStep \/ update_freq
                   \/ spi_write(LinkPackets) \/ spi_read(LinkPackets, FALSE)

SpecScenario == InitFreq /\ [][NextScenario]_vars

NextFreq == HostAxis \/ update_freq \/ spi_write(LinkPackets) \/ spi_read(LinkPackets, FALSE)

SpecFreq == InitFreq /\ [][NextFreq]_vars

\* SpecCeil: the host sets scales and acceleration limits, the thread runs with
\* a period of 0.65 ms
InitCeil == \E build \in Builds : Loaded(FreqCtrl, ZeroMem, 650000, build)

HostLimits == \E i \in Axes : HostScale(i) \/ HostMaxaccel(i)

NextCeil == HostLimits \/ update_freq \/ spi_write(LinkPackets) \/ spi_read(LinkPackets, FALSE)

SpecCeil == InitCeil /\ [][NextCeil]_vars

Next == HostLink \/ HostAxis \/ update_freq \/ spi_write(LinkPackets)
           \/ spi_read(LinkPackets, TRUE) \/ rtapi_app_exit

Spec == Init /\ [][Next]_vars


(***************************************************************************)
(* Claims about the handshake (checked under SpecLink).                    *)
(***************************************************************************)

\* The first half of C1 on its own: a tick that starts with SPI-status false
\* and sees no reset rising edge calls spi_transfer in neither stage.
NoExchangeWhileFault ==
    (phase = "freq" /\ ticks > 0 /\ ~st0 /\ ~rdEdge) => (~xferW /\ ~xferR)

\* C1: once SPI-status is false, no later tick calls spi_transfer in either
\* stage until a tick sees SPI-reset true with SPIresetOld false; and a run of
\* ticks that is fed non-valid headers and sees no reset rising edge makes
\* one exchange attempt, not more.
C1_HandshakeIdempotence ==
    /\ NoExchangeWhileFault
    /\ nfail <= 1

\* C2: with SPI-enable true, spi_read exchanges exactly when SPI-reset is true
\* and was false at the end of the previous read stage, or SPI-status is true
\* on entry; otherwise SPI-status keeps its value.
C2_ReadGate ==
    [][(phase = "read" /\ phase' = "freq" /\ SPIenable) =>
          /\ xferR' <=> ((SPIreset /\ ~SPIresetOld) \/ SPIstatus)
          /\ ~((SPIreset /\ ~SPIresetOld) \/ SPIstatus) => (SPIstatus' = SPIstatus)]_vars

\* a read stage that exchanged on the reset rising edge alone
C2_Witness ==
    phase = "freq" /\ ticks > 0 /\ rdEnable /\ rdEdge /\ ~st0 /\ xferR

\* C3: a tick with SPI-enable false ends with SPI-status false and calls
\* spi_transfer in neither the write stage nor the read stage.
C3_DisabledTickNoExchange ==
    (phase = "freq" /\ ticks > 0 /\ ~rdEnable) => (~SPIstatus /\ ~xferW /\ ~xferR)

\* C4: at a tick boundary SPI-status is true only if the read stage of the
\* tick just ended exchanged with SPI-enable true and received PRU_DATA.
C4_StatusInvariant ==
    (phase = "freq" /\ SPIstatus) =>
        (ticks > 0 /\ xferR /\ rdEnable /\ rxData.header = PRU_DATA)

\* the link stayed Active through a whole tick
C4_Witness == phase = "freq" /\ SPIstatus /\ st0 /\ xferW /\ xferR

\* C5: when SPI-status is true and the read stage receives PRU_ESTOP, the
\* status is false after the tick and no feedback register, accumulator or
\* previous counter changes in the tick.
C5_EstopKeepsFeedback ==
    [][/\ (phase = "read" /\ phase' = "freq" /\ SPIstatus /\ xferR'
              /\ rxData'.header = PRU_ESTOP)
             => (~SPIstatus' /\ UNCHANGED fbVars)
       /\ ~(phase = "read" /\ phase' = "freq") => UNCHANGED <<fbVars, SPIstatus>>]_vars

\* an e-stop packet carrying feedback that differs from the published one
C5_Witness ==
    /\ phase = "freq" /\ st0 /\ xferR /\ rxData.header = PRU_ESTOP /\ ~SPIstatus
    /\ rxData.jointFeedback[0] = 5 /\ count[0] = 0 /\ inputs[0] = 0

\* C6: with SPI-enable true, the read stage of a tick that sees the reset
\* rising edge in Fault, and of every tick entered with SPI-status true,
\* exchanges, and a PRU_DATA answer leaves SPI-status true; nothing but the
\* read stage changes SPI-status.
C6_Recovery ==
    [][/\ (phase = "read" /\ phase' = "freq" /\ SPIenable
             /\ ((~SPIstatus /\ SPIreset /\ ~SPIresetOld) \/ SPIstatus))
          => (xferR' /\ (rxData'.header = PRU_DATA => SPIstatus'))
       /\ ~(phase = "read" /\ phase' = "freq") => (SPIstatus' = SPIstatus)]_vars

\* Fault at the start of the tick, Active at its end
C6_Witness ==
    phase = "freq" /\ ~st0 /\ rdEnable /\ rdEdge /\ xferR /\ SPIstatus

(***************************************************************************)
(* Claims about update_freq (checked under SpecFreq).  phase = "write" is  *)
(* the state right after update_freq.                                      *)
(***************************************************************************)

\* C7: after an update_freq tick in which the enable input of axis i is
\* false, freq[i] and the published freq-cmd of axis i are 0.
C7_DisabledAxisZero ==
    phase = "write" =>
        \A i \in Axes : ~stepperEnable[i] => (IsZero(freq[i]) /\ IsZero(freq_cmd[i]))

\* C8: after every update_freq tick, also one that follows a change of the
\* scale, the magnitude of the frequency the tick published is at most the
\* max_freq the tick computed, which is PRU_BASEFREQ/2 unless maxvel > 0 and
\* maxvel * |scale| is smaller.
C8_FreqBound ==
    phase = "write" =>
        \A i \in Axes :
            /\ RLe(RAbs(freq_cmd[i]), loc[i].max_freq)
            /\ loc[i].max_freq =
                   (IF RGt(loc[i].maxvel_in, Zero)
                       /\ RLe(RMul(loc[i].maxvel_in, RAbs(loc[i].scale)), base_freq)
                    THEN RMul(loc[i].maxvel_in, RAbs(loc[i].scale))
                    ELSE base_freq)

\* a tick whose scaled command lay above max_freq and which published
\* max_freq itself
C8_Witness ==
    /\ phase = "write"
    /\ \E i \in Axes :
          /\ RGt(RAbs(RMul(loc[i].vel_raw, loc[i].scale)), loc[i].max_freq)
          /\ RAbs(freq_cmd[i]) = loc[i].max_freq

\* C9 as stated: from one update_freq tick to the next the published frequency
\* changes by at most dv = max_ac * dt of the later tick, and it lies between
\* the previous frequency and the clamped target.
C9_SlewLimit ==
    (phase = "write" /\ ticks >= 1) =>
        \A i \in Axes :
            LET o == loc[i].old_freq_cmd
                n == freq_cmd[i]
                t == loc[i].vel_cmd
            IN  /\ RLe(RAbs(RSub(n, o)), loc[i].dv)
                /\ (RLe(o, n) /\ RLe(n, t)) \/ (RLe(t, n) /\ RLe(n, o))

\* C9: from one update_freq tick to the next the published frequency, a
\* single-precision number, stays within the single-precision roundings of
\* previous - dv and previous + dv, dv = max_ac * dt of the later tick, and it
\* lies between the previous frequency and the single-precision rounding of
\* the clamped target.
C9_SlewLimitRounded ==
    (phase = "write" /\ ticks >= 1) =>
        \A i \in Axes :
            LET o == loc[i].old_freq_cmd
                n == freq_cmd[i]
                t == ToF32(loc[i].vel_cmd)
            IN  /\ RLe(ToF32(RSub(o, loc[i].dv)), n)
                /\ RLe(n, ToF32(RAdd(o, loc[i].dv)))
                /\ (RLe(o, n) /\ RLe(n, t)) \/ (RLe(t, n) /\ RLe(n, o))

\* a tick that moved an axis by dv and stopped short of the target, the
\* published step being larger than dv by the rounding to single precision
C9_Witness ==
    /\ phase = "write" /\ ticks >= 1
    /\ \E i \in Axes :
          /\ RNe(freq_cmd[i], ToF32(loc[i].vel_cmd))
          /\ RNe(freq_cmd[i], loc[i].old_freq_cmd)
          /\ RGt(RAbs(RSub(freq_cmd[i], loc[i].old_freq_cmd)), loc[i].dv)

\* C10: whenever the scale parameter has magnitude below 1e-20 at the start
\* of an update_freq tick, the scale that tick uses and leaves for the later
\* computations is 1.0.
C10_ScaleNeverZero ==
    phase = "write" =>
        \A i \in Axes :
            TooSmall(loc[i].scale_in) => (loc[i].scale = One /\ pos_scale[i] = One)

(***************************************************************************)
(* Claims about the read stage's bookkeeping (checked under SpecLink).     *)
(***************************************************************************)

\* C16: pos-fb, counts, accumulators, previous raw counters, PV outputs and the
\* input / input-not bits change only in a read stage that exchanged and
\* received the PRU_DATA header; update_freq, the write stage (also when it
\* exchanges), a read stage without exchange and a read stage receiving any
\* other header leave them unchanged.
C16_FeedbackOnlyAfterValid ==
    [][(fbVars' # fbVars) =>
          (phase = "read" /\ SPIenable /\ xferR' /\ rxData'.header = PRU_DATA)]_vars

\* the write stage exchanged and the inbound buffer holds a valid packet whose
\* payload differs from the published feedback
C16_Witness ==
    /\ phase = "read" /\ xferW /\ rxData.header = PRU_DATA
    /\ rxData.jointFeedback[0] = 5 /\ count[0] = 0
    /\ rxData.inputs[1] = 21 /\ inputs[0] = 0

\* C19: every read stage ends with SPIresetOld equal to SPI-reset as the end
\* of the stage finds it, and no other step changes SPIresetOld.
C19_EdgeTracking ==
    [][IF phase = "read" /\ phase' = "freq" THEN SPIresetOld' = SPIreset'
                                             ELSE SPIresetOld' = SPIresetOld]_vars

\* a read stage with SPI-enable false recorded a reset that had just risen
C19_Witness ==
    phase = "freq" /\ ticks > 0 /\ ~rdEnable /\ rdEdge /\ SPIresetOld /\ SPIreset

\* C20: after a reset rising edge taken in a tick with SPI-enable false, while
\* SPI-reset stays true every following tick exchanges in neither stage and
\* ends with SPI-status false, whatever SPI-enable is.
C20_EdgeConsumedWhileDisabled ==
    (phase = "freq" /\ held = 2) => (~SPIstatus /\ ~xferW /\ ~xferR)

\* such a following tick ran with SPI-enable true and SPI-reset still true
C20_Witness ==
    phase = "freq" /\ held = 2 /\ rdEnable /\ SPIreset /\ SPIenable

(***************************************************************************)
(* Claims about the feedback decode.                                       *)
(***************************************************************************)

\* On the incremental axes whose joints_fb_scale is 1 the accumulator equals
\* the displacement of the remote counter (SpecRoll, SpecLink).
UnitDivisorTracks ==
    \A i \in Axes :
        (joints_fb_type[i + 1] = JOINT_FB_REL /\ joints_fb_scale[i + 1] = 1)
            => accum[i] = truepos[i]

\* C11: on every incremental axis, after each decode the accumulator equals
\* the initial accumulator (0) plus the displacement of the remote counter, in
\* units of joints_fb_scale counts, also when the raw counter wraps.
C11_RolloverSafe ==
    \A i \in Axes :
        joints_fb_type[i + 1] = JOINT_FB_REL
            => accum[i] = WOf(WQuot(truepos[i], joints_fb_scale[i + 1]))

(***************************************************************************)
(* Claims about the frequency ceiling and the position loop.               *)
(***************************************************************************)

\* C12 as stated: after an update_freq tick that found maxvel <= 0 on an
\* enabled axis, maxvel is 0, the frequency target of the tick is 0, and from
\* a frequency of 0 the published frequency is 0 whatever the command.
C12_MaxvelZeroDisablesMotion ==
    phase = "write" =>
        \A i \in Axes :
            (loc[i].enable /\ RLe(loc[i].maxvel_in, Zero))
                => /\ IsZero(maxvel[i])
                   /\ IsZero(loc[i].vel_cmd)
                   /\ (IsZero(loc[i].old_freq) => IsZero(freq_cmd[i]))

\* C12: after an update_freq tick that found maxvel <= 0 on an axis, maxvel is
\* 0 and the frequency ceiling of the tick is the hardware ceiling
\* PRU_BASEFREQ/2: the target is the scaled command limited to that ceiling.
C12_MaxvelZeroNoLimit ==
    phase = "write" =>
        \A i \in Axes :
            RLe(loc[i].maxvel_in, Zero)
                => /\ maxvel[i] = Zero
                   /\ loc[i].max_freq = Norm(PRU_BASEFREQ, 2)
                   /\ loc[i].vel_cmd =
                          freq_limit(RMul(loc[i].vel_raw, loc[i].scale),
                                     Norm(PRU_BASEFREQ, 2))

\* an enabled axis with maxvel 0 moved from frequency 0
C12_Witness ==
    /\ phase = "write"
    /\ \E i \in Axes :
          /\ loc[i].enable /\ RLe(loc[i].maxvel_in, Zero) /\ maxvel[i] = Zero
          /\ IsZero(loc[i].old_freq) /\ ~IsZero(freq_cmd[i])

\* C13: after an update_freq tick, on every position-mode axis the error term
\* of the control law is 0 when |command - feedback| <= |deadband|, is
\* error - deadband when error > deadband and error + deadband when
\* error < -deadband, deadband being the pin or, when the pin is 0, 1/scale
\* (in single precision, as the control law holds it).
C13_DeadbandLaw ==
    phase = "write" =>
        \A i \in Axes :
            pos_mode[i] =>
                LET e == RSub(pos_cmd[i], pos_fb[i])
                    d == ToF32(IF IsZero(deadband[i]) THEN RDiv(One, loc[i].scale)
                               ELSE deadband[i])
                IN  /\ RLe(RAbs(e), RAbs(d)) => IsZero(loc[i].error)
                    /\ RGt(e, d) => loc[i].error = RSub(e, d)
                    /\ RLt(e, RNeg(d)) => loc[i].error = RAdd(e, d)

\* the tick of the scenario: position mode, scale 1000, pgain 1, ff1gain 0,
\* deadband 0, feedback 0.0, the command stepped from 0.0 to 1.0
ScenarioTick ==
    /\ phase = "write" /\ pos_mode[0]
    /\ loc[0].scale = R(1000) /\ pgain[0] = One /\ ff1gain[0] = Zero
    /\ deadband[0] = Zero /\ pos_fb[0] = Zero
    /\ loc[0].prev_cmd_in = Zero /\ pos_cmd[0] = One

\* C14 as stated: the tick of the scenario computes error = 1.0, velocity
\* command = 1.0 and a frequency target of 1000.
C14_ScenarioAsStated ==
    ScenarioTick => /\ loc[0].error = One
                    /\ loc[0].vel_raw = One
                    /\ loc[0].vel_cmd = R(1000)

\* C14: in the tick of the scenario the unset deadband is 1/1000 in single
\* precision and the unset ff1gain is 1.0: error = 1.0 - deadband, velocity
\* command = error + the command derivative 1.0/tick duration in single
\* precision, and the frequency target is 1000 times that, limited to the
\* frequency ceiling of the tick.
C14_ScenarioDefaults ==
    ScenarioTick =>
        LET db == ToF32(RDiv(One, R(1000)))
            e == RSub(One, db)
            v == RAdd(e, ToF32(RDiv(One, PeriodSeconds(period))))
            t == RMul(v, R(1000))
        IN  /\ loc[0].db = db
            /\ loc[0].error = e
            /\ loc[0].vel_raw = v
            /\ loc[0].vel_cmd = (IF RGt(t, loc[0].max_freq) THEN loc[0].max_freq ELSE t)

\* the scenario's tick with the target below the ceiling: with the tick of
\* half a second the target is just under 2999
C14_Witness ==
    /\ ScenarioTick /\ loc[0].enable
    /\ RGt(loc[0].vel_cmd, R(2998)) /\ RLt(loc[0].vel_cmd, R(2999))

(***************************************************************************)
(* Claims about the digital inputs.                                        *)
(***************************************************************************)

\* In every state input.k-not is the complement of input.k.
InputComplement == \A k \in InputBits : inputs_not[k] = 1 - inputs[k]

\* Each input bit has two slots of data->inputs of its own.
InputSlotsDisjoint ==
    \A k1, k2 \in InputBits :
        k1 # k2 => {InputSlot(k1), InputSlot(k1) + 1}
                      \cap {InputSlot(k2), InputSlot(k2) + 1} = {}

\* After a read stage that decoded a PRU_DATA packet, input.k is bit k of the
\* packet's input bytes and input.k-not its complement, for every k.
InputsDecoded ==
    (phase = "freq" /\ xferR /\ rxData.header = PRU_DATA) =>
        \A k \in InputBits :
            /\ inputs[k] = BitOf(rxData.inputs[(k \div 8) + 1], k % 8)
            /\ inputs_not[k] = 1 - BitOf(rxData.inputs[(k \div 8) + 1], k % 8)

\* C15: each input bit has two slots of its own; after every successful
\* decode input.k equals bit k and input.k-not its complement; and in every
\* state input.k-not is the complement of input.k.
C15_InputUnpacking == InputSlotsDisjoint /\ InputsDecoded /\ InputComplement

(***************************************************************************)
(* Claims about the analog outputs.                                        *)
(***************************************************************************)

\* C17: after spi_write, for the linear output with min 0 and max 10, a set
\* point of 5 is encoded as half of 0xFFFFFFFF / 2 (1073741823), and the set
\* points 0, 2.5 and 10 as v * (0xFFFFFFFF / 2) / 10 truncated to an integer.
C17_LinearOutput ==
    (phase = "read" /\ vout_type[1] = VOUT_TYPE_LINEAR /\ vout_min[1] = 0
        /\ vout_max[1] = 10) =>
        /\ setPoint[1] = R(5) => txData.setPoint[1] = 2147483647 \div 2
        /\ setPoint[1] = Zero => txData.setPoint[1] = 0
        /\ setPoint[1] = R(10) => txData.setPoint[1] = 2147483647
        /\ setPoint[1] = Norm(5, 2) => txData.setPoint[1] = 536870911

\* the set point 5 was encoded and sent
C17_Witness ==
    /\ phase = "read" /\ xferW /\ setPoint[1] = R(5)
    /\ txData.setPoint[1] = 1073741823

(***************************************************************************)
(* Claims about the load.                                                  *)
(***************************************************************************)
\* a tag that is unset, empty or begins with p or P
PositionTag(t) == t = NullTag \/ t = <<>> \/ Head(t) \in {"p", "P"}

\* a tag that begins with v or V
VelocityTag(t) == t # NullTag /\ t # <<>> /\ Head(t) \in {"v", "V"}

BadTag(t) == ~PositionTag(t) /\ ~VelocityTag(t)

\* the mode of every axis is the one its tag selects
ModesFollowTags ==
    \A n \in Axes : (PositionTag(ctrl_type[n + 1]) => pos_mode[n])
                        /\ (VelocityTag(ctrl_type[n + 1]) => ~pos_mode[n])

\* C18 as stated: once rtapi_app_main has returned, it returned -1 if and
\* only if some axis has a bad tag, and then before anything was registered;
\* after a successful load the mode of every axis is the one its tag selects.
C18_FailsIffBadTag ==
    app.stage # "start" =>
        /\ (app.retval = -1) <=> (\E n \in Axes : BadTag(ctrl_type[n + 1]))
        /\ app.retval = -1 => (~app.hal /\ ~app.comp)
        /\ app.retval = 0 => ModesFollowTags

\* C18: once rtapi_app_main has returned, it returned at the control-tag
\* check if and only if some axis has a bad tag, and then with -1 and before
\* hal_init was called; with good tags it returned 0, or -1 from a failed HAL or
\* hardware call; after a successful load the mode of every axis is the one
\* its tag selects.
C18_ConfigCheck ==
    app.stage # "start" =>
        /\ (app.stage = "ctrl_type") <=> (\E n \in Axes : BadTag(ctrl_type[n + 1]))
        /\ app.stage = "ctrl_type" => (app.retval = -1 /\ ~app.hal /\ ~app.comp)
        /\ (app.retval = -1 /\ app.stage # "ctrl_type") => app.hal
        /\ (app.retval = 0) <=> (app.stage = "ready")
        /\ app.retval = 0 => ModesFollowTags

\* a load refused for a tag that begins with a space
C18_Witness ==
    /\ app.stage = "ctrl_type" /\ app.retval = -1 /\ phase = "failed"
    /\ ctrl_type[1] = <<" ", "p">>

(***************************************************************************)
(* Claims about the exchanges of a tick.                                   *)
(***************************************************************************)

\* C21: at the end of every tick, spi_transfer has been called at most once
\* in the tick: not in both the write stage and the read stage.
C21_OneExchangePerTick ==
    (phase = "freq" /\ ticks > 0) => ~(xferW /\ xferR)

\* the transfer events of the recorded exchange, in the order they happened
BusTransfers == SelectSeq(bus, LAMBDA e : e.op = "xfer")

\* the recorded exchange is the one of the stage that has just run
ExchangeJustDone == (phase = "read" /\ xferW) \/ (phase = "freq" /\ xferR)

\* cell k of the receive buffer was rewritten by the decode of the read stage
DividedCell(k) ==
    phase = "freq" /\ payload_accepted(rxData.header) /\ k \in 2 .. (JOINTS + 1)

\* C22: every exchange drives chip select low, then makes exactly SPIBUFSIZE
\* transfers with index 0, 1, ... in order, each sending cell i of the transmit
\* buffer and storing its reply as cell i of the receive buffer, then drives
\* chip select high; chip select is never low between two handler calls and is
\* high at every tick boundary once an exchange has been made.
C22_ExchangeFraming ==
    /\ cs # "LOW"
    /\ (bus # <<>>) =>
          /\ cs = "HIGH"
          /\ Len(bus) = SPIBUFSIZE + 3
          /\ bus[1] = PinEvent("fsel", "OUTP")
          /\ bus[2] = PinEvent("write", "LOW")
          /\ bus[SPIBUFSIZE + 3] = PinEvent("write", "HIGH")
          /\ Len(BusTransfers) = SPIBUFSIZE
          /\ \A k \in 1 .. SPIBUFSIZE :
                bus[k + 2].op = "xfer" /\ bus[k + 2].arg.i = k - 1
    /\ ExchangeJustDone =>
          \A k \in 1 .. SPIBUFSIZE :
             /\ bus[k + 2].arg.out = txBuffer(txData)[k]
             /\ DividedCell(k) \/ rxBuffer(rxData)[k] = bus[k + 2].arg.in

\* an exchange of the read stage has just ended with an e-stop answer
C22_Witness ==
    /\ phase = "freq" /\ xferR /\ rxData.header = PRU_ESTOP
    /\ Len(bus) = SPIBUFSIZE + 3
    /\ rxData.inputs = <<21, 129>>

(***************************************************************************)
(* Claims about the reports of the read stage.                             *)
(***************************************************************************)
Reported(m) == \E k \in 1 .. Len(msgs) : msgs[k] = m

\* C23: a read-stage exchange that returns the e-stop tag prints the e-stop
\* error and nothing else, and the bad-payload report is printed only when the
\* tag received is neither the valid-data tag nor the e-stop tag.
C23_EstopReportedAlone ==
    (phase = "freq" /\ xferR) =>
        /\ (rxData.header = PRU_ESTOP) => (msgs = <<MsgEstop>>)
        /\ Reported(MsgBadPayload) => (rxData.header \notin {PRU_DATA, PRU_ESTOP})

(***************************************************************************)
(* Claims about the published counts.                                      *)
(***************************************************************************)

\* C24: on every incremental axis, after every decode the published counts
\* equal the accumulator, also when the accumulator is outside the int32_t
\* range.
C24_CountIsAccumulator ==
    \A i \in Axes :
        joints_fb_type[i + 1] = JOINT_FB_REL => WOf(count[i]) = accum[i]

(***************************************************************************)
(* Claims about the decode of absolute feedback.                           *)
(***************************************************************************)

\* a read stage that decodes the packet it received; raw_prev' is the raw
\* counter of every axis as received
DecodeStep ==
    phase = "read" /\ phase' = "freq" /\ xferR' /\ payload_accepted(rxData'.header)

\* the decode leaves the accumulator, the previous counter and the counts of
\* every absolute axis alone, and the accumulator and previous counter of an
\* incremental axis change by that axis's own counter only
DecodeFrame ==
    \A i \in Axes :
        IF joints_fb_type[i + 1] = JOINT_FB_ABS
        THEN accum'[i] = accum[i] /\ old_count'[i] = old_count[i] /\ count'[i] = count[i]
        ELSE LET fb == CDiv(raw_prev'[i], joints_fb_scale[i + 1])
             IN  /\ old_count'[i] = fb
                 /\ accum'[i] = WAdd(accum[i], Sub32(fb, old_count[i]))

\* C25 as stated: a decode publishes raw counter / scale as the position of
\* every absolute axis, leaves that axis's accumulator, previous raw counter
\* and counts unchanged, and changes no axis's accumulator or previous raw
\* counter on behalf of another axis.
C25_AbsoluteRawOverScale ==
    [][DecodeStep =>
          /\ \A i \in Axes :
                joints_fb_type[i + 1] = JOINT_FB_ABS
                    => pos_fb'[i] = RDiv(R(raw_prev'[i]), pos_scale[i])
          /\ DecodeFrame]_vars

\* C25: a decode publishes (raw counter / joints_fb_scale, truncated toward
\* zero and rounded to single precision) / scale as the position of every
\* absolute axis, leaves that axis's accumulator, previous raw counter and
\* counts unchanged, and changes no axis's accumulator or previous raw counter
\* on behalf of another axis.
C25_AbsoluteDoesNotAccumulate ==
    [][DecodeStep =>
          /\ \A i \in Axes :
                joints_fb_type[i + 1] = JOINT_FB_ABS
                    => pos_fb'[i] =
                           RDiv(ToF32(R(CDiv(raw_prev'[i], joints_fb_scale[i + 1]))),
                                pos_scale[i])
          /\ DecodeFrame]_vars

\* a packet with raw counter 2^25 + 3 on the absolute axis (divisor 2) and 5
\* on the first axis has been decoded: the position is 2^24 / scale
C25_Witness ==
    /\ phase = "freq" /\ xferR /\ rxData.header = PRU_DATA
    /\ raw_prev[1] = 33554435 /\ pos_fb[1] = RDiv(R(Pow2(24)), pos_scale[1])
    /\ accum[1] = WZero /\ old_count[1] = 0 /\ count[1] = 0
    /\ accum[0] = WOf(5) /\ accum[2] = WOf(-3)

(***************************************************************************)
(* Claims about the joint-enable bytes.                                    *)
(***************************************************************************)

\* C26: for every number of axes J, after the packing bit (j mod 8) of enable
\* byte (j div 8) is 1 exactly if axis j's enable input is true, no bit at or
\* beyond position J is set, and no enable input of index J or more is read.
C26_EnablePacking ==
    pk.J > 0 =>
        /\ \A j \in 0 .. (pk.J - 1) :
              (BitOf(pk.jointEnable[j \div 8], j % 8) = 1) <=> pk.en[j]
        /\ \A bi \in 0 .. (EnableBytes(pk.J) - 1), b \in 0 .. 7 :
              (bi * 8 + b >= pk.J) => BitOf(pk.jointEnable[bi], b) = 0
        /\ \A k \in pk.reads : k < pk.J
        /\ ~pk.fault

(***************************************************************************)
(* Claims about the clamps of update_freq.                                 *)
(***************************************************************************)

\* After an update_freq tick both limit parameters of every axis are within
\* [0, ceiling / |scale|] (SpecFreq).
LimitsClamped ==
    phase = "write" =>
        \A i \in Axes :
            /\ RLe(Zero, maxvel[i]) /\ RLe(Zero, maxaccel[i])
            /\ RLe(RMul(maxvel[i], RAbs(pos_scale[i])), base_freq)
            /\ RLe(RMul(maxaccel[i], RAbs(pos_scale[i])),
                   RMul(loc[i].max_freq, recip_dt))

\* C27: after every update_freq tick, for every axis maxvel >= 0,
\* maxaccel >= 0, maxvel * |scale| <= PRU_BASEFREQ / 2, maxaccel * |scale| <=
\* max_freq / dt, and the proportional gain, feedforward gain and deadband the
\* position control law used in the tick are >= 0.
C27_ParameterClamping ==
    /\ LimitsClamped
    /\ phase = "write" =>
          \A i \in Axes :
              pos_mode[i] =>
                  /\ RLe(Zero, gain_or_default(pgain[i]))
                  /\ RLe(Zero, gain_or_default(ff1gain[i]))
                  /\ RLe(Zero, loc[i].db)

RoundingRoom == RAdd(One, Fin(1, BFromNat(1), -50))

====
